---- MODULE Spec2Model ----
(***************************************************************************)
(* A model of the lzfse_rust codec core: the match finder frontends (bytes *)
(* and ring), the history table, the block protocol with its RAW and VN    *)
(* blocks, and the bit reader.                                             *)
(*                                                                         *)
(* Conventions.  A byte is an integer in 0..255.  A byte string is a       *)
(* sequence of bytes; the byte at (zero based) index i is element i + 1.   *)
(* A u32 word read from memory is kept as its four little endian bytes.    *)
(* An Idx is kept as the signed 32 bit representative of the wrapping      *)
(* index, so Idx::Q0 - Q1 is -Q1.                                          *)
(***************************************************************************)
EXTENDS Integers, Sequences, FiniteSets, TLC

\* ------------------------------------------------------------------------
\* Bounds of the model.
\* ------------------------------------------------------------------------

\* Longest generated input of the frame specification.
MaxLen == 22

\* Number of runs of the run structured inputs.
MaxRuns == 3

\* Number of frames encoded in a row on one encoder.
MaxFrames == 3

\* ------------------------------------------------------------------------
\* Program constants.
\* ------------------------------------------------------------------------

GOOD_MATCH_LEN == 40

RAW_CUTOFF == 20

RAW_LIMIT == 16384

VN_CUTOFF == 4096

Q1 == 1073741824

HASH_BITS == 14

HASH_WIDTH == 4

RING_SIZE == 524288

RING_LIMIT == 320

RING_BLK_SIZE == 16384

\* size_of::<usize>() on a 64 bit target.
WORD == 8

\* raw block header: magic, n_raw_bytes.
RAW_HEADER_SIZE == 8

\* vn block header: magic, n_raw_bytes, n_payload_bytes.
VN_HEADER_SIZE == 12

\* The backend types, Vn and Fse.
BackendTypes == {"vn", "fse"}

\* BackendType::MAX_MATCH_DISTANCE: the widest distance a VN opcode carries,
\* and the widest distance of the FSE D table.
MAX_MATCH_DISTANCE(ty) == IF ty = "vn" THEN 65535 ELSE 262139

\* MatchUnit::MATCH_UNIT
MATCH_UNIT(ty) == IF ty = "vn" THEN 3 ELSE 4

MagicRaw == <<98, 118, 120, 45>>

MagicVxn == <<98, 118, 120, 110>>

MagicVx1 == <<98, 118, 120, 49>>

MagicVx2 == <<98, 118, 120, 50>>

MagicEos == <<98, 118, 120, 36>>

\* ------------------------------------------------------------------------
\* Helpers.
\* ------------------------------------------------------------------------

Min2(a, b) == IF a <= b THEN a ELSE b

\* Least element of a non-empty set of integers.
MinOf(S) == CHOOSE x \in S : \A y \in S : x <= y

\* Least element of a set of integers, d for the empty set.
MinOr(S, d) == IF S = {} THEN d ELSE MinOf(S)

\* F of the value v: a value computed once and used under a name.
Bind(v, F(_)) == F(v)

\* n as four little endian bytes, 0 <= n < 2^31.
U32LE(n) == << n % 256, (n \div 256) % 256, (n \div 65536) % 256, (n \div 16777216) % 256 >>

Zeros(n) == [i \in 1..n |-> 0]

\* The byte of a string at a zero based position, 0 past its end.
ByteAt(bytes, i) == IF i < Len(bytes) THEN bytes[i + 1] ELSE 0

\* ------------------------------------------------------------------------
\* encode/match_unit: hash and unit match over u32 words.
\* ------------------------------------------------------------------------

\* MatchUnit::hash_u: Knuth multiplicative hash, the top HASH_BITS bits of
\* u * 0x9E37_79B1 mod 2^32, computed by byte columns.  Vn hashes the low
\* three bytes of the word, Fse all four.
hash_u(ty, u) ==
    LET u4 == IF ty = "fse" THEN u[4] ELSE 0
        c0 == u[1] * 177
        c1 == u[1] * 121 + u[2] * 177
        c2 == u[1] * 55 + u[2] * 121 + u[3] * 177
        c3 == u[1] * 158 + u[2] * 55 + u[3] * 121 + u4 * 177
        t1 == c1 + (c0 \div 256)
        t2 == c2 + (t1 \div 256)
        t3 == c3 + (t2 \div 256)
    IN  (((t3 % 256) * 256) + (t2 % 256)) \div 4

\* MatchUnit::match_us: the unit match length of two words.  Vn: 4 when the
\* words are equal, 3 when the low three bytes are, else 0.  Fse: 4 when the
\* words are equal, else 0.
match_us(ty, u, v) ==
    IF u = v THEN 4
    ELSE IF ty = "vn" /\ u[1] = v[1] /\ u[2] = v[2] /\ u[3] = v[3] THEN 3
    ELSE 0

\* ------------------------------------------------------------------------
\* encode/history.rs
\* ------------------------------------------------------------------------

Item(val, i) == [val |-> val, idx |-> i]

HistoryNew(item) == [k \in 1..HASH_WIDTH |-> item]

\* The table after reset(): every bucket holds Item(0, Q0 - Q1).  The table
\* is kept as the map of the buckets pushed to since the reset.
ResetHistory == HistoryNew(Item(<<0, 0, 0, 0>>, 0 - Q1))

TableReset == [h \in {} |-> ResetHistory]

TableGet(t, h) == IF h \in DOMAIN t THEN t[h] ELSE ResetHistory

\* History::push filling the queue from its old end.
HistoryPushBack(q, item) ==
    [k \in 1..HASH_WIDTH |-> IF k = HASH_WIDTH THEN item ELSE q[k + 1]]

HistoryPush(q, item) == [k \in 1..HASH_WIDTH |-> IF k = 1 THEN item ELSE q[k - 1]]

\* HistoryTable::push: the bucket as it was, and the table with the item
\* pushed.
TablePush(ty, t, item) ==
    Bind(hash_u(ty, item.val), LAMBDA h :
        [queue |-> TableGet(t, h),
         table |-> IF h \in DOMAIN t
                     THEN [t EXCEPT ![h] = HistoryPush(t[h], item)]
                     ELSE (h :> HistoryPush(ResetHistory, item)) @@ t])

\* The largest signed 32 bit value.
I32_MAX == Q1 - 1 + Q1

\* Idx - Idx, Idx - u32 and u32 - u32, wrapping: the signed 32 bit
\* representative of a - b for signed 32 bit representatives a and b.
wrapping_sub(a, b) ==
    IF a >= 0 /\ b < 0 /\ a > I32_MAX + b
      THEN (a - I32_MAX) + ((0 - 1 - b) - I32_MAX) - 1
    ELSE IF a < 0 /\ b > 0 /\ a < (0 - I32_MAX - 1) + b
      THEN (a + I32_MAX + 1) + ((I32_MAX - b) + 1)
    ELSE a - b

\* is_wrapping: (a - b) as u32 >= Q3.
is_wrapping(a, b) ==
    Bind(wrapping_sub(a, b), LAMBDA d : d < 0 /\ d >= 0 - Q1)

\* History::clamp_rebias comparing the difference as a signed value.
history_clamp_rebias_signed(q, i, delta) ==
    [k \in 1..HASH_WIDTH |->
        Bind(wrapping_sub(i, q[k].idx), LAMBDA d :
            IF d > Q1
              THEN [q[k] EXCEPT !.idx = wrapping_sub(wrapping_sub(i, Q1), delta)]
              ELSE [q[k] EXCEPT !.idx = wrapping_sub(q[k].idx, delta)])]

\* History::clamp_rebias: (idx - item.idx) as u32 > Q1 is d < 0 or d > Q1
\* for the signed representative d of the difference.
history_clamp_rebias(q, i, delta) ==
    [k \in 1..HASH_WIDTH |->
        Bind(wrapping_sub(i, q[k].idx), LAMBDA d :
            IF d < 0 \/ d > Q1
              THEN [q[k] EXCEPT !.idx = wrapping_sub(wrapping_sub(i, Q1), delta)]
              ELSE [q[k] EXCEPT !.idx = wrapping_sub(q[k].idx, delta)])]

\* HistoryTable::clamp_rebias over a table that holds all its buckets.
table_clamp_rebias(t, i, delta) ==
    [h \in DOMAIN t |-> history_clamp_rebias(t[h], i, delta)]

\* HistoryTable::clamp
table_clamp(t, i) ==
    [h \in DOMAIN t |-> history_clamp_rebias(t[h], i, 0)]

\* ------------------------------------------------------------------------
\* encode/match_object.rs
\* ------------------------------------------------------------------------

Match(i, mi, ml) == [idx |-> i, match_idx |-> mi, match_len |-> ml]

MatchDefault == Match(0, 0, 0)

\* Match::select emitting the pending match only when it ends short of the
\* incoming match.
select_strict(pending, incoming) ==
    IF incoming.match_len = 0
      THEN [some |-> FALSE, m |-> MatchDefault, pending |-> pending]
    ELSE IF incoming.match_len >= GOOD_MATCH_LEN
      THEN [some |-> TRUE, m |-> incoming,
            pending |-> [pending EXCEPT !.match_len = 0]]
    ELSE IF pending.match_len = 0
      THEN [some |-> FALSE, m |-> MatchDefault, pending |-> incoming]
    ELSE IF pending.idx + pending.match_len < incoming.idx
      THEN [some |-> TRUE, m |-> pending, pending |-> incoming]
    ELSE IF incoming.match_len > pending.match_len
      THEN [some |-> TRUE, m |-> incoming,
            pending |-> [pending EXCEPT !.match_len = 0]]
    ELSE [some |-> TRUE, m |-> pending,
          pending |-> [pending EXCEPT !.match_len = 0]]

\* Match::select with the incoming match winning a tie of overlapping
\* matches.
select_tie(pending, incoming) ==
    IF incoming.match_len = 0
      THEN [some |-> FALSE, m |-> MatchDefault, pending |-> pending]
    ELSE IF incoming.match_len >= GOOD_MATCH_LEN
      THEN [some |-> TRUE, m |-> incoming,
            pending |-> [pending EXCEPT !.match_len = 0]]
    ELSE IF pending.match_len = 0
      THEN [some |-> FALSE, m |-> MatchDefault, pending |-> incoming]
    ELSE IF pending.idx + pending.match_len <= incoming.idx
      THEN [some |-> TRUE, m |-> pending, pending |-> incoming]
    ELSE IF incoming.match_len >= pending.match_len
      THEN [some |-> TRUE, m |-> incoming,
            pending |-> [pending EXCEPT !.match_len = 0]]
    ELSE [some |-> TRUE, m |-> pending,
          pending |-> [pending EXCEPT !.match_len = 0]]

\* Match::select::<GOOD_MATCH_LEN>: [some, m] is the Option returned and
\* pending the receiver afterwards.
select(pending, incoming) ==
    IF incoming.match_len = 0
      THEN [some |-> FALSE, m |-> MatchDefault, pending |-> pending]
    ELSE IF incoming.match_len >= GOOD_MATCH_LEN
      THEN [some |-> TRUE, m |-> incoming,
            pending |-> [pending EXCEPT !.match_len = 0]]
    ELSE IF pending.match_len = 0
      THEN [some |-> FALSE, m |-> MatchDefault, pending |-> incoming]
    ELSE IF pending.idx + pending.match_len <= incoming.idx
      THEN [some |-> TRUE, m |-> pending, pending |-> incoming]
    ELSE IF incoming.match_len > pending.match_len
      THEN [some |-> TRUE, m |-> incoming,
            pending |-> [pending EXCEPT !.match_len = 0]]
    ELSE [some |-> TRUE, m |-> pending,
          pending |-> [pending EXCEPT !.match_len = 0]]

\* ------------------------------------------------------------------------
\* encode/frontend_bytes.rs: matching over the resident input.
\* ------------------------------------------------------------------------

\* get_u32(bytes, index), index + 4 <= len.
get_u32(bytes, i) == << bytes[i + 1], bytes[i + 2], bytes[i + 3], bytes[i + 4] >>

\* match_kit::fast_match_inc_unchecked(block, index, match_index, start, max):
\* the number of equal bytes at the two positions, counted from start and
\* limited by max.
fast_match_inc(block, i, mi, start, max) ==
    MinOf({k \in start..(max - 1) : block[i + k + 1] # block[mi + k + 1]} \cup {max})

\* match_kit::fast_match_dec_unchecked(block, index, match_index, max): the
\* number of equal bytes below the two positions, limited by max.
fast_match_dec(block, i, mi, max) ==
    MinOf({k \in 0..(max - 1) : block[i - k] # block[mi - k]} \cup {max})

\* FrontendBytes::match_unit
match_unit(ty, block, item, match_item) ==
    LET len == match_us(ty, item.val, match_item.val)
    IN  IF len = 4
          THEN fast_match_inc(block, item.idx, match_item.idx, 4, Len(block) - item.idx)
          ELSE len

\* FrontendBytes::match_dec
match_dec(block, lit, i, mi) ==
    fast_match_dec(block, i, mi, Min2(i - lit, mi))

\* The candidate loop of FrontendBytes::find_match from queue slot k on;
\* a distance above MAX_MATCH_DISTANCE as u32 ends the loop.
RECURSIVE BestBytes(_, _, _, _, _, _)
BestBytes(ty, block, queue, item, k, m) ==
    IF k > HASH_WIDTH THEN m
    ELSE LET e == queue[k]
             distance == item.idx - e.idx
         IN  IF distance < 0 \/ distance > MAX_MATCH_DISTANCE(ty) THEN m
             ELSE Bind(match_unit(ty, block, item, e), LAMBDA inc :
                      BestBytes(ty, block, queue, item, k + 1,
                                IF inc > m.match_len
                                  THEN Match(m.idx, e.idx, inc)
                                  ELSE m))

\* FrontendBytes::find_match
find_match_bytes(ty, block, lit, queue, item) ==
    Bind(BestBytes(ty, block, queue, item, 1, MatchDefault), LAMBDA m :
        IF m.match_len = 0 THEN m
        ELSE Bind(match_dec(block, lit, item.idx, m.match_idx), LAMBDA dec :
                 Match(item.idx - dec, m.match_idx - dec, m.match_len + dec)))

\* ------------------------------------------------------------------------
\* ring/object.rs: the ring memory.  Addresses are offsets from PTR: the
\* tail shadow is [-RING_LIMIT, 0), the live ring [0, RING_SIZE) and the
\* head shadow [RING_SIZE, RING_SIZE + RING_LIMIT).  Each zone is kept as
\* the bytes from its first address on, up to the last byte ever stored;
\* the bytes past that are zero as allocated.
\* ------------------------------------------------------------------------

RingNew == [live |-> <<>>, head_shadow |-> <<>>, tail_shadow |-> <<>>]

RingGet(r, a) ==
    IF a < 0 THEN ByteAt(r.tail_shadow, a + RING_LIMIT)
    ELSE IF a >= RING_SIZE THEN ByteAt(r.head_shadow, a - RING_SIZE)
    ELSE ByteAt(r.live, a)

\* The memory with bytes stored in the live ring from address a on.
RingWrite(r, a, bytes) ==
    [r EXCEPT !.live =
        (IF Len(r.live) >= a THEN SubSeq(r.live, 1, a)
         ELSE r.live \o Zeros(a - Len(r.live)))
        \o bytes
        \o SubSeq(r.live, a + Len(bytes) + 1, Len(r.live))]

\* The n bytes stored from address a on.
RingRead(r, a, n) == [k \in 1..n |-> RingGet(r, a + k - 1)]

\* Ring::head_copy_out: head -> head shadow.
head_copy_out(r) ==
    [r EXCEPT !.head_shadow = SubSeq(r.live, 1, Min2(Len(r.live), RING_LIMIT))]

\* Ring::tail_copy_out: tail -> tail shadow.
tail_copy_out(r) ==
    [r EXCEPT !.tail_shadow =
        SubSeq(r.live, RING_SIZE - RING_LIMIT + 1, Min2(Len(r.live), RING_SIZE))]

\* Ring::get_u32
ring_get_u32(ring, i) == RingRead(ring, i % RING_SIZE, 4)

\* Ring::view(head, tail) copied out.
view(ring, h, t) == RingRead(ring, h % RING_SIZE, t - h)

\* Address of the byte k places above idx as the coarse increment match
\* reads it: the first word directly, then blocks of four words with the
\* index wrapped after each block.
IncAddr(i, k) ==
    IF k < 4 + WORD THEN (i % RING_SIZE) + k
    ELSE LET blk == (k - (4 + WORD)) \div (4 * WORD)
         IN  (((i % RING_SIZE) + 4 * WORD * blk) % RING_SIZE) + (k - 4 * WORD * blk)

\* Ring::coarse_match_inc counting the first differing byte as equal.
match_inc_coarse_over(ring, i, mi, max) ==
    LET first == 4 + WORD
        blks == IF max <= first THEN 1
                ELSE ((max - first + 4 * WORD - 1) \div (4 * WORD)) + 1
        end == first + 4 * WORD * blks
    IN  MinOr({k + 1 : k \in {j \in 4..(end - 1) :
                  RingGet(ring, IncAddr(i, j)) # RingGet(ring, IncAddr(mi, j))}},
              max)

\* Ring::coarse_match_inc(idxs, 4, max): words are compared until a
\* difference shows, the scan ending with the first block of four words
\* that starts at or above max; without a difference the result is max.
match_inc_coarse(ring, i, mi, max) ==
    LET first == 4 + WORD
        blks == IF max <= first THEN 1
                ELSE ((max - first + 4 * WORD - 1) \div (4 * WORD)) + 1
        end == first + 4 * WORD * blks
    IN  MinOr({k \in 4..(end - 1) :
                  RingGet(ring, IncAddr(i, k)) # RingGet(ring, IncAddr(mi, k))},
              max)

\* Address of the byte k + 1 places below idx as the coarse decrement match
\* reads it.
DecAddr(i, k) ==
    LET off == 5 * WORD
    IN  IF k < WORD THEN ((i - off) % RING_SIZE) + (off - 1 - k)
        ELSE LET blk == (k - WORD) \div (4 * WORD)
             IN  ((i - off - 4 * WORD * blk) % RING_SIZE)
                 + (4 * WORD - 1 - ((k - WORD) % (4 * WORD)))

\* Ring::match_dec_coarse(idxs, 0, max)
match_dec_coarse(ring, i, mi, max) ==
    LET blks == IF max <= WORD THEN 1
                ELSE ((max - WORD + 4 * WORD - 1) \div (4 * WORD)) + 1
        end == WORD + 4 * WORD * blks
    IN  MinOr({k \in 0..(end - 1) :
                  RingGet(ring, DecAddr(i, k)) # RingGet(ring, DecAddr(mi, k))},
              max)

\* ------------------------------------------------------------------------
\* encode/frontend_ring.rs: matching over the ring.
\* ------------------------------------------------------------------------

\* FrontendRing::match_unit_coarse
match_unit_coarse(ty, ring, item, match_item, max) ==
    LET len == match_us(ty, item.val, match_item.val)
    IN  IF len = 4 THEN match_inc_coarse(ring, item.idx, match_item.idx, max)
        ELSE len

\* The candidate loop of FrontendRing::find_match from queue slot k on.
RECURSIVE BestRing(_, _, _, _, _, _, _)
BestRing(ty, ring, queue, item, max, k, m) ==
    IF k > HASH_WIDTH THEN m
    ELSE LET e == queue[k]
             distance == item.idx - e.idx
         IN  IF distance < 0 \/ distance > MAX_MATCH_DISTANCE(ty) THEN m
             ELSE Bind(match_unit_coarse(ty, ring, item, e, max), LAMBDA inc :
                      BestRing(ty, ring, queue, item, max, k + 1,
                               IF inc > m.match_len
                                 THEN Match(m.idx, e.idx, inc)
                                 ELSE m))

\* FrontendRing::find_match::<B, true> without the cut of the match
\* length to max.
find_match_ring_uncut(ty, ring, hd, lit, queue, item, max) ==
    Bind(BestRing(ty, ring, queue, item, max, 1, MatchDefault), LAMBDA m :
        IF m.match_len = 0 THEN m
        ELSE Bind(Min2(m.match_idx - hd, item.idx - lit), LAMBDA dmax :
             Bind(Min2(match_dec_coarse(ring, item.idx, m.match_idx, dmax), dmax),
                  LAMBDA dec :
                 Match(item.idx - dec, m.match_idx - dec, m.match_len + dec))))

\* FrontendRing::find_match::<B, true> with the decrement limited by the
\* literals alone.
find_match_ring_unheaded(ty, ring, hd, lit, queue, item, max) ==
    Bind(BestRing(ty, ring, queue, item, max, 1, MatchDefault), LAMBDA m :
        IF m.match_len = 0 THEN m
        ELSE Bind(item.idx - lit, LAMBDA dmax :
             Bind(Min2(match_dec_coarse(ring, item.idx, m.match_idx, dmax), dmax),
                  LAMBDA dec :
                 Match(item.idx - dec, m.match_idx - dec,
                       Min2(m.match_len, max) + dec))))

\* FrontendRing::find_match::<B, true>
find_match_ring(ty, ring, hd, lit, queue, item, max) ==
    Bind(BestRing(ty, ring, queue, item, max, 1, MatchDefault), LAMBDA m :
        IF m.match_len = 0 THEN m
        ELSE Bind(Min2(m.match_idx - hd, item.idx - lit), LAMBDA dmax :
             Bind(Min2(match_dec_coarse(ring, item.idx, m.match_idx, dmax), dmax),
                  LAMBDA dec :
                 Match(item.idx - dec, m.match_idx - dec,
                       Min2(m.match_len, max) + dec))))

\* ------------------------------------------------------------------------
\* raw: the raw block.
\* ------------------------------------------------------------------------

\* raw::raw_compress: magic, n_raw_bytes, the bytes.
raw_compress(dst, bytes) == dst \o MagicRaw \o U32LE(Len(bytes)) \o bytes

\* ------------------------------------------------------------------------
\* vn: the VN backend.  Opcode layout after the LZFSE reference.
\* ------------------------------------------------------------------------

\* Literal runs above fifteen bytes leave as large literal opcodes, E0 LL
\* and up to 271 bytes each: the opcodes, and the literals left over.
RECURSIVE LongLiterals(_)
LongLiterals(lits) ==
    IF Len(lits) > 15
      THEN LET x == Min2(Len(lits), 271)
           IN  Bind(LongLiterals(SubSeq(lits, x + 1, Len(lits))), LAMBDA r :
                   [out |-> <<224, x - 16>> \o SubSeq(lits, 1, x) \o r.out,
                    rest |-> r.rest])
      ELSE [out |-> <<>>, rest |-> lits]

\* BackendVn::push_literals
vn_push_literals(lits) ==
    Bind(LongLiterals(lits), LAMBDA r :
        r.out \o (IF Len(r.rest) > 0
                    THEN <<224 + Len(r.rest)>> \o r.rest
                    ELSE <<>>))

\* A match length left over after the opcode carrying the distance: large
\* match opcodes F0 MM of up to 271 each, then a small match opcode.
RECURSIVE LongMatch(_)
LongMatch(m) ==
    IF m > 15
      THEN LET x == Min2(m, 271) IN <<240, x - 16>> \o LongMatch(m - x)
    ELSE IF m > 0 THEN <<240 + m>>
    ELSE <<>>

\* The opcode of a match that carries L literals, x of the match length
\* and the distance D, M the match length left over and prev the distance
\* of the previous match: its bytes b, and the match length m still to go.
VnMatchOp(prev, L, x, M, D) ==
    IF D = prev
      THEN IF L = 0 THEN [b |-> <<240 + x>>, m |-> M]
           ELSE [b |-> <<L * 64 + (x - 3) * 8 + 6>>, m |-> M]
    ELSE IF D < 2048 - 512
      THEN [b |-> <<(D \div 256) + L * 64 + (x - 3) * 8, D % 256>>, m |-> M]
    ELSE IF D >= 16384 \/ M = 0 \/ x + M > 34
      THEN [b |-> <<L * 64 + (x - 3) * 8 + 7, D % 256, D \div 256>>, m |-> M]
    ELSE LET y == x - 3 + M
             v == D * 4 + (y % 4)
         IN  [b |-> <<160 + (y \div 4) + L * 8, v % 256, v \div 256>>, m |-> 0]

\* BackendVn::push_match: the bytes of one (literals, match_len,
\* match_distance), prev the distance of the previous match.  Literals
\* above fifteen leave as large literal opcodes, more than three left over
\* as a small literal opcode, the others with the match opcode.
vn_push_match(prev, lits, match_len, D) ==
    Bind(LongLiterals(lits), LAMBDA r :
    Bind(IF Len(r.rest) > 3 THEN <<>> ELSE r.rest, LAMBDA l :
    Bind(Min2(match_len, 10 - 2 * Len(l)), LAMBDA x :
    Bind(VnMatchOp(prev, Len(l), x, match_len - x, D), LAMBDA op :
        r.out
        \o (IF Len(r.rest) > 3 THEN <<224 + Len(r.rest)>> \o r.rest ELSE <<>>)
        \o op.b \o l \o LongMatch(op.m)))))

\* The end of stream opcode and its seven padding bytes.
VnEos == <<6, 0, 0, 0, 0, 0, 0, 0>>

\* ------------------------------------------------------------------------
\* encode backends: [type, mark, n_raw_bytes, match_distance, lmds].
\* ------------------------------------------------------------------------

BackendDefault ==
    [type |-> "none", mark |-> 0, n_raw_bytes |-> 0, match_distance |-> 0,
     lmds |-> <<>>]

\* Backend::init(dst, len).  Vn writes its block header, the counts to be
\* patched by finalize.  Fse stages and writes nothing.
backend_init(ty, dst, len) ==
    [backend |-> [type |-> ty, mark |-> Len(dst), n_raw_bytes |-> len,
                  match_distance |-> 0, lmds |-> <<>>],
     dst |-> IF ty = "vn" THEN dst \o MagicVxn \o Zeros(8) ELSE dst]

\* Backend::push_literals(dst, literals)
backend_push_literals(be, dst, lits) ==
    IF be.type = "vn"
      THEN [backend |-> be, dst |-> dst \o vn_push_literals(lits)]
      ELSE [backend |-> [be EXCEPT !.lmds = Append(@, <<lits, 0, 1>>)],
            dst |-> dst]

\* Backend::push_match(dst, literals, match_len, match_distance)
backend_push_match(be, dst, lits, match_len, D) ==
    IF be.type = "vn"
      THEN [backend |-> [be EXCEPT !.match_distance = D],
            dst |-> dst \o vn_push_match(be.match_distance, lits, match_len, D)]
      ELSE [backend |-> [be EXCEPT !.lmds = Append(@, <<lits, match_len, D>>)],
            dst |-> dst]

\* The body of an FSE block.  The entropy coding is not modelled: the body
\* carries the staged LMD sequence as it is, each (literals, match_len,
\* match_distance) as L, the literals, M and D.
RECURSIVE FseBody(_)
FseBody(lmds) ==
    IF lmds = <<>> THEN <<>>
    ELSE LET e == Head(lmds)
         IN  U32LE(Len(e[1])) \o e[1] \o U32LE(e[2]) \o U32LE(e[3])
             \o FseBody(Tail(lmds))

\* Backend::finalize(dst).  Vn: the end of stream opcode, and the header
\* patched with n_raw_bytes and n_payload_bytes.  Fse: the block of the
\* staged LMDs: magic, n_raw_bytes, the number of LMDs, the body.
backend_finalize(be, dst) ==
    IF be.type = "vn"
      THEN Bind(dst \o VnEos, LAMBDA d :
           Bind(U32LE(be.n_raw_bytes) \o U32LE(Len(d) - be.mark - VN_HEADER_SIZE),
                LAMBDA hdr :
               [i \in 1..Len(d) |->
                   IF i > be.mark + 4 /\ i <= be.mark + VN_HEADER_SIZE
                     THEN hdr[i - be.mark - 4]
                     ELSE d[i]]))
      ELSE dst \o MagicVx2 \o U32LE(be.n_raw_bytes) \o U32LE(Len(be.lmds))
               \o FseBody(be.lmds)

\* ------------------------------------------------------------------------
\* decode: the block decoder.
\* ------------------------------------------------------------------------

\* The output with a match of length M at distance D copied on, byte by
\* byte, so that a match may overlap its own output.
CopyMatch(out, M, D) ==
    [i \in 1..(Len(out) + M) |->
        IF i <= Len(out) THEN out[i]
        ELSE out[Len(out) - D + ((i - Len(out) - 1) % D) + 1]]

\* Opcodes without a meaning.
VnUdef == {30, 38, 46, 54, 62} \cup (112..127) \cup (208..223)

\* Opcodes that do nothing.
VnNop == {14, 22}

\* The opcode at the head of bytes, b1 and b2 the bytes after it (0 when
\* absent): its kind, its length in bytes without the literals, and the
\* (L, M, D) it carries, prev the distance of the previous match.
VnOpcode(o, b1, b2, prev) ==
    IF o = 6 THEN [kind |-> "eos", len |-> 8, L |-> 0, M |-> 0, D |-> prev]
    ELSE IF o \in VnNop THEN [kind |-> "nop", len |-> 1, L |-> 0, M |-> 0, D |-> prev]
    ELSE IF o \in VnUdef THEN [kind |-> "udef", len |-> 1, L |-> 0, M |-> 0, D |-> prev]
    ELSE IF o = 224 THEN [kind |-> "lmd", len |-> 2, L |-> b1 + 16, M |-> 0, D |-> prev]
    ELSE IF o > 224 /\ o < 240
      THEN [kind |-> "lmd", len |-> 1, L |-> o - 224, M |-> 0, D |-> prev]
    ELSE IF o = 240 THEN [kind |-> "lmd", len |-> 2, L |-> 0, M |-> b1 + 16, D |-> prev]
    ELSE IF o > 240 THEN [kind |-> "lmd", len |-> 1, L |-> 0, M |-> o - 240, D |-> prev]
    ELSE IF o >= 160 /\ o < 192
      THEN [kind |-> "lmd", len |-> 3, L |-> (o \div 8) % 4,
            M |-> (o % 8) * 4 + (b1 % 4) + 3, D |-> (b1 + 256 * b2) \div 4]
    ELSE IF o % 8 = 6
      THEN [kind |-> "lmd", len |-> 1, L |-> o \div 64, M |-> ((o \div 8) % 8) + 3,
            D |-> prev]
    ELSE IF o % 8 = 7
      THEN [kind |-> "lmd", len |-> 3, L |-> o \div 64, M |-> ((o \div 8) % 8) + 3,
            D |-> b1 + 256 * b2]
    ELSE [kind |-> "lmd", len |-> 2, L |-> o \div 64, M |-> ((o \div 8) % 8) + 3,
          D |-> (o % 8) * 256 + b1]

\* A u32 count of a block header; counts at or above 2^30 are kept as 2^30,
\* which is beyond every length that occurs.
Count(w) == IF w[4] >= 64 THEN Q1 ELSE w[1] + 256 * w[2] + 65536 * w[3] + 16777216 * w[4]

\* The decoder between blocks.
BlockNone == [type |-> "none", end |-> 0, n_raw_bytes |-> 0, start |-> 0, D |-> 0]

\* VnStep without the bound of the raw byte count on what an opcode
\* produces.
VnStepUnbounded(bytes, pos, out, blk) ==
    LET avail == Min2(blk.end, Len(bytes)) - pos
        op == VnOpcode(ByteAt(bytes, pos), ByteAt(bytes, pos + 1),
                       ByteAt(bytes, pos + 2), blk.D)
        err(e) == [pos |-> pos, dec |-> out, stat |-> e, blk |-> blk]
        n == Len(out) - blk.start
    IN  IF avail < 1 THEN err("PayloadUnderflow")
        ELSE IF op.kind = "udef" THEN err("BadOpcode")
        ELSE IF avail < op.len + op.L THEN err("PayloadUnderflow")
        ELSE IF op.kind = "eos"
          THEN IF pos + op.len < blk.end THEN err("PayloadOverflow")
               ELSE IF n # blk.n_raw_bytes THEN err("BadPayload")
               ELSE [pos |-> pos + op.len, dec |-> out, stat |-> "run",
                     blk |-> BlockNone]
        ELSE IF op.M > 0 /\ (op.D = 0 \/ op.D > Len(out) + op.L) THEN err("BadPayload")
        ELSE LET lits == SubSeq(bytes, pos + op.len + 1, pos + op.len + op.L)
             IN  [pos |-> pos + op.len + op.L,
                  dec |-> IF op.M > 0 THEN CopyMatch(out \o lits, op.M, op.D)
                          ELSE out \o lits,
                  stat |-> "run",
                  blk |-> [blk EXCEPT !.D = op.D]]

\* VnStep without the check of the end of stream opcode against the end of
\* the payload.
VnStepNoOverflow(bytes, pos, out, blk) ==
    LET avail == Min2(blk.end, Len(bytes)) - pos
        op == VnOpcode(ByteAt(bytes, pos), ByteAt(bytes, pos + 1),
                       ByteAt(bytes, pos + 2), blk.D)
        err(e) == [pos |-> pos, dec |-> out, stat |-> e, blk |-> blk]
        n == Len(out) - blk.start
    IN  IF avail < 1 THEN err("PayloadUnderflow")
        ELSE IF op.kind = "udef" THEN err("BadOpcode")
        ELSE IF avail < op.len + op.L THEN err("PayloadUnderflow")
        ELSE IF op.kind = "eos"
          THEN IF n # blk.n_raw_bytes THEN err("BadPayload")
               ELSE [pos |-> pos + op.len, dec |-> out, stat |-> "run",
                     blk |-> BlockNone]
        ELSE IF n + op.L + op.M > blk.n_raw_bytes THEN err("BadPayload")
        ELSE IF op.M > 0 /\ (op.D = 0 \/ op.D > Len(out) + op.L) THEN err("BadPayload")
        ELSE LET lits == SubSeq(bytes, pos + op.len + 1, pos + op.len + op.L)
             IN  [pos |-> pos + op.len + op.L,
                  dec |-> IF op.M > 0 THEN CopyMatch(out \o lits, op.M, op.D)
                          ELSE out \o lits,
                  stat |-> "run",
                  blk |-> [blk EXCEPT !.D = op.D]]

\* One VN opcode decoded: the decoder state [pos, dec, stat, blk] after it.
\* The payload ends where the header says or where the input ends.
VnStep(bytes, pos, out, blk) ==
    LET avail == Min2(blk.end, Len(bytes)) - pos
        op == VnOpcode(ByteAt(bytes, pos), ByteAt(bytes, pos + 1),
                       ByteAt(bytes, pos + 2), blk.D)
        err(e) == [pos |-> pos, dec |-> out, stat |-> e, blk |-> blk]
        n == Len(out) - blk.start
    IN  IF avail < 1 THEN err("PayloadUnderflow")
        ELSE IF op.kind = "udef" THEN err("BadOpcode")
        ELSE IF avail < op.len + op.L THEN err("PayloadUnderflow")
        ELSE IF op.kind = "eos"
          THEN IF pos + op.len < blk.end THEN err("PayloadOverflow")
               ELSE IF n # blk.n_raw_bytes THEN err("BadPayload")
               ELSE [pos |-> pos + op.len, dec |-> out, stat |-> "run",
                     blk |-> BlockNone]
        ELSE IF n + op.L + op.M > blk.n_raw_bytes THEN err("BadPayload")
        ELSE IF op.M > 0 /\ (op.D = 0 \/ op.D > Len(out) + op.L) THEN err("BadPayload")
        ELSE LET lits == SubSeq(bytes, pos + op.len + 1, pos + op.len + op.L)
             IN  [pos |-> pos + op.len + op.L,
                  dec |-> IF op.M > 0 THEN CopyMatch(out \o lits, op.M, op.D)
                          ELSE out \o lits,
                  stat |-> "run",
                  blk |-> [blk EXCEPT !.D = op.D]]

\* The LMDs of an FSE block body replayed from pos on, k of them left.
RECURSIVE FseReplay(_, _, _, _)
FseReplay(bytes, pos, out, k) ==
    IF k = 0 THEN [pos |-> pos, dec |-> out, stat |-> "run"]
    ELSE IF pos + 4 > Len(bytes) THEN [pos |-> pos, dec |-> out, stat |-> "PayloadUnderflow"]
    ELSE LET L == Count(SubSeq(bytes, pos + 1, pos + 4))
         IN  IF pos + 12 + L > Len(bytes)
               THEN [pos |-> pos, dec |-> out, stat |-> "PayloadUnderflow"]
             ELSE LET lits == SubSeq(bytes, pos + 5, pos + 4 + L)
                      M == Count(SubSeq(bytes, pos + L + 5, pos + L + 8))
                      D == Count(SubSeq(bytes, pos + L + 9, pos + L + 12))
                  IN  IF D = 0 \/ D > Len(out) + L \/ M >= Q1
                        THEN [pos |-> pos, dec |-> out, stat |-> "BadLmdPayload"]
                      ELSE FseReplay(bytes, pos + 12 + L,
                                     CopyMatch(out \o lits, M, D), k - 1)

\* The block at pos: its magic read and dispatched on.  A raw block and an
\* FSE block are decoded at once, a VN block is entered.
BlockStep(bytes, pos, out) ==
    LET err(e) == [pos |-> pos, dec |-> out, stat |-> e, blk |-> BlockNone]
        word(k) == SubSeq(bytes, pos + 4 * k + 1, pos + 4 * k + 4)
        has(k) == pos + 4 * k <= Len(bytes)
    IN  IF ~has(1) THEN err("BadBlock")
        ELSE IF word(0) = MagicEos
          THEN [pos |-> pos + 4, dec |-> out, stat |-> "ok", blk |-> BlockNone]
        ELSE IF word(0) = MagicRaw
          THEN IF ~has(2) THEN err("BadBlock")
               ELSE IF pos + 8 + Count(word(1)) > Len(bytes) THEN err("PayloadUnderflow")
               ELSE [pos |-> pos + 8 + Count(word(1)),
                     dec |-> out \o SubSeq(bytes, pos + 9, pos + 8 + Count(word(1))),
                     stat |-> "run", blk |-> BlockNone]
        ELSE IF word(0) = MagicVxn
          THEN IF ~has(3) THEN err("BadBlock")
               ELSE [pos |-> pos + VN_HEADER_SIZE, dec |-> out, stat |-> "run",
                     blk |-> [type |-> "vn",
                              end |-> pos + VN_HEADER_SIZE + Count(word(2)),
                              n_raw_bytes |-> Count(word(1)),
                              start |-> Len(out), D |-> 0]]
        ELSE IF word(0) = MagicVx1 \/ word(0) = MagicVx2
          THEN IF ~has(3) THEN err("BadBlock")
               ELSE Bind(FseReplay(bytes, pos + 12, out, Count(word(2))), LAMBDA r :
                        IF r.stat = "run" /\ Len(r.dec) - Len(out) # Count(word(1))
                          THEN err("BadLmdPayload")
                        ELSE [pos |-> r.pos, dec |-> r.dec, stat |-> r.stat,
                              blk |-> BlockNone])
        ELSE err("BadBlock")

\* ------------------------------------------------------------------------
\* Inputs.
\* ------------------------------------------------------------------------

\* The encoder variants: FrontendBytes over a resident slice, FrontendRing
\* fed by copy() from a reader, FrontendRing fed by write() calls.
Variants == {"bytes", "ring", "writer"}

RECURSIVE SumTo(_, _)
SumTo(f, k) == IF k = 0 THEN 0 ELSE f[k] + SumTo(f, k - 1)

\* The run of the byte at position i (from 1) for the run lengths f.
RunOf(f, i) == MinOf({k \in 1..MaxRuns : i <= SumTo(f, k)})

\* The byte string of MaxRuns runs with the lengths f, bytes 0 and 1 taking
\* turns, the first run of byte first.
RunString(f, first) ==
    [i \in 1..SumTo(f, MaxRuns) |-> (first + RunOf(f, i) + 1) % 2]

\* Every byte string of at most MaxRuns runs and at most MaxLen bytes.
RunInputs ==
    {RunString(f, first) :
        f \in {g \in [1..MaxRuns -> 0..MaxLen] : SumTo(g, MaxRuns) <= MaxLen},
        first \in {0, 1}}

\* A byte without structure for every k >= 0.
NoiseAt(k) == ((((k * k) % 65521) * k) % 65521) % 256

\* A byte string of length n without structure.
Noise(n) == [i \in 1..n |-> NoiseAt(i)]

\* The inputs of a frame.
Inputs == RunInputs

\* Inputs at the cutoffs between the block types and right above them, with
\* and without structure.
CutoffInputs ==
    {b \in RunInputs : Len(b) \in {RAW_CUTOFF, RAW_CUTOFF + 1}}
    \cup {Noise(RAW_CUTOFF), Noise(RAW_CUTOFF + 1)}
    \cup {Zeros(VN_CUTOFF), Zeros(VN_CUTOFF + 1)}
    \cup {Noise(VN_CUTOFF), Noise(VN_CUTOFF + 1)}

\* Sizes of the slices handed to write(); a slice may also be all the rest.
ChunkSizes == {7}

\* ------------------------------------------------------------------------
\* State.
\* ------------------------------------------------------------------------

VARIABLES
    variant,        \* the encoder variant of the run
    src,            \* the input of the frame
    rest,           \* the input not yet handed to the frontend
    pc,             \* position in the frame
    ring,           \* FrontendRing::ring, the ring memory
    table,          \* HistoryTable
    commit,         \* FrontendRing::commit
    pending,        \* pending match
    head,           \* FrontendRing::head
    literal_idx,    \* FrontendRing::literal_idx, FrontendBytes::literal_index
    idx,            \* FrontendRing::idx, FrontendBytes::index
    tail,           \* FrontendRing::tail
    mark,           \* FrontendRing::mark
    clamp,          \* FrontendRing::clamp
    n_raw_bytes,    \* FrontendRing::n_raw_bytes
    block,          \* FrontendBytes::block
    cur,            \* the local index of the match loop
    dst_len,        \* flush_backend: the bytes the backend wrote for the block
    backend,        \* the backend in use
    handed,         \* push_match: the last match handed to the backend
    found,          \* find_match: the last match found
    dst,            \* the output
    n_eos,          \* number of end of stream magics written in the frame
    din,            \* the bytes under decode
    dpos,           \* decoder position in din
    dec,            \* decoder output
    dstat,          \* decoder status: "run", "ok" or the error
    dblk,           \* the block under decode
    frame,          \* number of the frame on this encoder, from 1
    src1,           \* the input of the first frame
    out1,           \* the output of the first frame
    mut,            \* what was done to the bytes under decode
    bw,             \* BitWriter and the pairs pushed
    br,             \* BitReader and what it pulled
    chosen,         \* Match::select: the receiver, the call and its result
    hist,           \* HistoryTable::clamp: the call and the table before it
    feed,           \* the input of a long frame by its length, and the last step
    coder,          \* the FSE coder: weights, data, payload and what load gave
    walk,           \* a decoder table walked state by state, and the accumulator
    big             \* FrontendBytes over a long input, by its indices

vars == << variant, src, rest, pc, ring, table, commit, pending, head,
           literal_idx, idx, tail, mark, clamp, n_raw_bytes, block, cur,
           dst_len, backend, handed, found, dst, n_eos, din, dpos, dec, dstat,
           dblk, frame, src1, out1, mut, bw, br, chosen, hist, feed,
           coder, walk, big >>

encvars == << ring, table, commit, pending, head, literal_idx, idx, tail,
              mark, clamp, n_raw_bytes, block, cur, dst_len, backend, handed,
              found >>

decvars == << din, dpos, dec, dstat, dblk >>

aux == << frame, src1, out1, mut, bw, br, chosen, hist, feed, coder, walk, big >>

\* No mutation.
MutNone == [kind |-> "none", at |-> 0, by |-> 0]

\* BitWriter::new over a destination that holds the pad bytes: accum holds
\* the bits not yet flushed, least significant first, ws the pairs pushed.
BitWriterNew == [accum |-> <<>>, dst |-> Zeros(WORD), ws |-> <<>>]

\* No BitReader.
BitReaderNone ==
    [inner |-> <<>>, accum_data |-> Zeros(WORD), accum_bits |-> 0, index |-> 0,
     off |-> 0, pulled |-> 0, left |-> 0, over |-> 0, same |-> TRUE,
     result |-> "none"]

\* No match handed to the backend yet: n counts the matches handed, m is
\* the last of them and literal_idx the literal index before it was pushed.
HandedNone == [n |-> 0, m |-> MatchDefault, literal_idx |-> 0]

\* No match found yet: n counts the matches found, m is the last of them,
\* idx the index of the item it was found for and literal_idx the literal
\* index then.
FoundNone == [n |-> 0, m |-> MatchDefault, idx |-> 0, literal_idx |-> 0]

\* No long frame: left is the number of bytes the source still holds,
\* slice the bytes left of the slice under write, step the last step
\* of the frontend, full whether the last match_block ran on a full ring,
\* head0 the head before it, loop the match loop under way, ty its backend
\* type, turns the turns of it taken one by one and slices the calls of
\* write; total is the length of the input, pushed the bytes handed to the
\* backend as literals and as matches, dropped whether a pending match
\* was discarded; head_stale and tail_stale tell that the first or the last
\* RING_LIMIT bytes of the ring were written after their shadow was copied.
FeedNone ==
    [left |-> 0, slice |-> 0, step |-> "none", full |-> FALSE, head0 |-> 0,
     loop |-> "none", ty |-> "fse", turns |-> 0, slices |-> 0, total |-> 0,
     pushed |-> 0, dropped |-> FALSE, head_stale |-> FALSE,
     tail_stale |-> FALSE]

\* No FSE coder at work: kind is the stream (literals or lmds), weights
\* the weight blocks, data what is stored, pad the literal that fills the
\* last four, bytes the payload, param the parameters of the block header,
\* tampered whether they are other than store returned them, loaded what load
\* gave, final the decoder states after the last symbol, fin what the
\* reader said at its end and result what load returned.
CoderNone ==
    [kind |-> "none", weights |-> <<>>, data |-> <<>>, pad |-> 0,
     bytes |-> <<>>, param |-> [num |-> 0, bits |-> 0, state |-> <<>>],
     tampered |-> FALSE, loaded |-> <<>>, final |-> <<>>, fin |-> "none",
     result |-> "none"]

\* No table walked: block is the block of the table (U, L, M or D), weights
\* its weights, state the decoder state and prev the state before the last
\* decode, k, v_bits, delta and latch the entry the last decode used, via
\* whether an entry a weight covers was used, stayed the decodes through
\* latches in a row.  For a load followed on its accumulator: kind is the
\* stream, target the bits of a usize, states the decoder states,
\* accum_bits the bits of the reader, at the component to decode next,
\* since the bits pulled since the reader was made or flushed, avail the
\* bits it held then, rounds the turns of the loop done and num the turns
\* to do.
WalkNone ==
    [block |-> "none", weights |-> <<>>, state |-> 0, prev |-> 0, k |-> 0,
     v_bits |-> 0, delta |-> 0, latch |-> FALSE, via |-> FALSE, stayed |-> 0,
     kind |-> "none", target |-> 0, states |-> <<>>, accum_bits |-> 0,
     at |-> 0, since |-> 0, avail |-> 0, rounds |-> 0, num |-> 0]

\* No long input: over is the length of src less BLOCK_GUIDE, block the
\* length of the block, short whether it is the last, ty the backend
\* type, ward the idx the next push is to have (Ward::idx) and order what
\* the pushes did to that order, beyond whether find_match saw a distance
\* above Q2, turns and blocks the turns taken one by one and the blocks so
\* far, panic the assert! that failed, pre the indices before the last
\* reposition, delta its delta, dropped whether it discarded a pending
\* match.
BigNone ==
    [over |-> 0, block |-> 0, short |-> FALSE, ty |-> "fse", ward |-> 0,
     order |-> "ok", beyond |-> FALSE, turns |-> 0, blocks |-> 0,
     panic |-> "none",
     pre |-> [idx |-> 0, literal_idx |-> 0, pending |-> MatchDefault,
              over |-> 0, queue |-> <<>>],
     delta |-> 0, dropped |-> FALSE]

\* No call of HistoryTable::clamp yet.
ClampNone ==
    [op |-> "none", idx |-> 0, delta |-> 0, ages |-> <<>>, before |-> <<>>]

\* No call of Match::select yet: the receiver is Match::default.
SelectNone ==
    [before |-> MatchDefault, incoming |-> MatchDefault, some |-> FALSE,
     m |-> MatchDefault, pending |-> MatchDefault, calls |-> 0]

\* FrontendRing::new, FrontendBytes::new, HistoryTable::default, a zero
\* filled ring: the encoder as constructed, before its first frame.
Constructed ==
    /\ pc = "init"
    /\ rest = <<>>
    /\ ring = RingNew
    /\ table = TableReset
    /\ commit = "None"
    /\ pending = MatchDefault
    /\ head = 0
    /\ literal_idx = 0
    /\ idx = 0
    /\ tail = 0
    /\ mark = 0
    /\ clamp = 0
    /\ n_raw_bytes = 0
    /\ block = <<>>
    /\ cur = 0
    /\ dst_len = 0
    /\ backend = BackendDefault
    /\ handed = HandedNone
    /\ found = FoundNone
    /\ dst = <<>>
    /\ n_eos = 0
    /\ din = <<>>
    /\ dpos = 0
    /\ dec = <<>>
    /\ dstat = "idle"
    /\ dblk = BlockNone
    /\ frame = 1
    /\ src1 = <<>>
    /\ out1 = <<>>
    /\ mut = MutNone
    /\ bw = BitWriterNew
    /\ br = BitReaderNone
    /\ chosen = SelectNone
    /\ hist = ClampNone
    /\ feed = FeedNone
    /\ coder = CoderNone
    /\ walk = WalkNone
    /\ big = BigNone

Init ==
    /\ variant \in Variants
    /\ src \in Inputs
    /\ Constructed

\* FrontendRing::init, FrontendBytes::init: the start of a frame.  The ring
\* memory and n_raw_bytes are left as they are.
FrameInit ==
    /\ pc = "init"
    /\ table' = TableReset
    /\ pending' = MatchDefault
    /\ literal_idx' = 0
    /\ idx' = 0
    /\ IF variant = "bytes"
         THEN /\ block' = <<>>
              /\ UNCHANGED << commit, head, tail, mark, clamp >>
         ELSE /\ commit' = "None"
              /\ head' = 0
              /\ tail' = 0
              /\ mark' = RING_BLK_SIZE
              /\ clamp' = Q1
              /\ UNCHANGED block
    /\ rest' = IF variant = "bytes" THEN <<>> ELSE src
    /\ pc' = IF variant = "bytes" \/ (variant = "writer" /\ src = <<>>)
               THEN "flush" ELSE "fill"
    /\ dst' = <<>>
    /\ n_eos' = 0
    /\ UNCHANGED aux
    /\ handed' = HandedNone
    /\ found' = FoundNone
    /\ UNCHANGED << variant, src, ring, n_raw_bytes, cur, dst_len, backend >>
    /\ UNCHANGED decvars

\* FrontendRing::copy: copy_block reads the ring block at tail full from
\* the reader; a short read ends the copy.
Copy ==
    /\ pc = "fill"
    /\ variant = "ring"
    /\ Len(rest) < RING_BLK_SIZE
    /\ ring' = RingWrite(ring, tail % RING_SIZE, rest)
    /\ tail' = tail + Len(rest)
    /\ n_raw_bytes' = n_raw_bytes + Len(rest)
    /\ rest' = <<>>
    /\ pc' = "flush"
    /\ UNCHANGED aux
    /\ UNCHANGED << variant, src, table, commit, pending, head, literal_idx,
                    idx, mark, clamp, block, cur, dst_len, backend, handed,
                    found, dst, n_eos >>
    /\ UNCHANGED decvars

\* FrontendRing::write with a slice of n bytes: write_block stores the
\* slice at tail, the slice ending short of mark.
Write ==
    /\ pc = "fill"
    /\ variant = "writer"
    /\ \E n \in {c \in ChunkSizes : c < Len(rest)} \cup {Len(rest)} :
        /\ n < mark - tail
        /\ ring' = RingWrite(ring, tail % RING_SIZE, SubSeq(rest, 1, n))
        /\ tail' = tail + n
        /\ rest' = SubSeq(rest, n + 1, Len(rest))
        /\ pc' = IF n = Len(rest) THEN "flush" ELSE "fill"
    /\ UNCHANGED aux
    /\ UNCHANGED << variant, src, table, commit, pending, head, literal_idx,
                    idx, mark, clamp, n_raw_bytes, block, cur, dst_len, backend,
                    handed, found, dst, n_eos >>
    /\ UNCHANGED decvars

\* Ring::manage_ring_zones as FrontendRing::manage_ring_zones calls it.
manage_ring_zones(r, m) ==
    IF m % RING_SIZE = RING_BLK_SIZE THEN head_copy_out(r)
    ELSE IF m % RING_SIZE = 0 THEN tail_copy_out(r)
    ELSE r

\* flush_select with the FSE cutoff one byte early.
SelectTypeFseEarly(len) ==
    IF len >= VN_CUTOFF THEN "fse"
    ELSE IF len > RAW_CUTOFF THEN "vn"
    ELSE "raw"

\* flush_select with the VN cutoff one byte early.
SelectTypeVnEarly(len) ==
    IF len > VN_CUTOFF THEN "fse"
    ELSE IF len >= RAW_CUTOFF THEN "vn"
    ELSE "raw"

\* flush_select: the backend type by the length of the input, "raw" for a
\* raw block.
SelectType(len) ==
    IF len > VN_CUTOFF THEN "fse"
    ELSE IF len > RAW_CUTOFF THEN "vn"
    ELSE "raw"

\* Truncate for Vec<u8>: the outcome and the vector.
truncate(d, m) ==
    [ok |-> m <= Len(d), dst |-> IF m <= Len(d) THEN SubSeq(d, 1, m) ELSE d]

\* FrontendRing::flush up to the match loop: manage_ring_zones, then with
\* nothing committed flush_select: a raw block, or the commit, the backend
\* initialized by flush_backend, and the entry of match_short.  The fields
\* afterwards.
flush_ring ==
    Bind(manage_ring_zones(ring, mark), LAMBDA r :
    Bind(SelectType(tail - idx), LAMBDA ty :
        IF ty = "raw"
          THEN [ring |-> r, commit |-> commit, backend |-> backend,
                dst |-> raw_compress(dst, view(r, head, tail)),
                literal_idx |-> tail, cur |-> cur, idx |-> idx, block |-> block,
                pc |-> "eos"]
          ELSE Bind(backend_init(ty, dst, tail - idx), LAMBDA bi :
               [ring |-> r, commit |-> IF ty = "vn" THEN "Vn" ELSE "Fse",
                backend |-> bi.backend, dst |-> bi.dst,
                literal_idx |-> literal_idx,
                cur |-> IF tail - idx < 4 THEN cur ELSE idx,
                idx |-> IF tail - idx < 4 THEN idx ELSE tail - MATCH_UNIT(ty) + 1,
                block |-> block,
                pc |-> IF tail - idx < 4 THEN "finalize" ELSE "match"])))

\* FrontendBytes::flush up to the match loop: flush_select: a raw block, or
\* the backend initialized by flush_backend and the entry of match_any.
\* The fields afterwards.
flush_bytes ==
    Bind(SelectType(Len(src)), LAMBDA ty :
        IF ty = "raw"
          THEN [ring |-> ring, commit |-> commit, backend |-> backend,
                dst |-> raw_compress(dst, src),
                literal_idx |-> Len(src), cur |-> cur, idx |-> idx,
                block |-> block, pc |-> "eos"]
          ELSE Bind(backend_init(ty, dst, Len(src)), LAMBDA bi :
               [ring |-> ring, commit |-> commit,
                backend |-> bi.backend, dst |-> bi.dst,
                literal_idx |-> literal_idx, cur |-> idx, idx |-> Len(src) - 3,
                block |-> src, pc |-> "match"]))

\* The fields s written by the head of a flush.
Flushed(s) ==
    /\ ring' = s.ring
    /\ commit' = s.commit
    /\ backend' = s.backend
    /\ dst' = s.dst
    /\ literal_idx' = s.literal_idx
    /\ cur' = s.cur
    /\ idx' = s.idx
    /\ block' = s.block
    /\ pc' = s.pc
    /\ UNCHANGED aux
    /\ UNCHANGED << variant, src, rest, table, pending, head, tail, mark,
                    clamp, n_raw_bytes, dst_len, handed, found, n_eos >>
    /\ UNCHANGED decvars

FlushRing ==
    /\ pc = "flush"
    /\ variant # "bytes"
    /\ commit = "None"
    /\ Flushed(flush_ring)

FlushBytes ==
    /\ pc = "flush"
    /\ variant = "bytes"
    /\ Flushed(flush_bytes)

\* The history pushes that follow an emitted match in match_short: the
\* items of from .. to - 1.
RECURSIVE SyncRing(_, _, _, _, _)
SyncRing(ty, r, t, from, to) ==
    IF from >= to THEN t
    ELSE SyncRing(ty, r, TablePush(ty, t, Item(ring_get_u32(r, from), from)).table,
                  from + 1, to)

\* FrontendBytes::sync_history
RECURSIVE sync_history(_, _, _, _, _)
sync_history(ty, bytes, t, from, to) ==
    IF from >= to THEN t
    ELSE sync_history(ty, bytes, TablePush(ty, t, Item(get_u32(bytes, from), from)).table,
                      from + 1, to)

\* push_match: with some, the match m is handed to the backend at the
\* literal index of the frontend.
Handed(some, m) ==
    IF some
      THEN [n |-> handed.n + 1, m |-> m, literal_idx |-> literal_idx]
      ELSE handed

\* find_match for the item: the incoming match, when there is one.
Found(item, incoming) ==
    IF incoming.match_len # 0
      THEN [n |-> found.n + 1, m |-> incoming, idx |-> item.idx,
            literal_idx |-> literal_idx]
      ELSE found

\* A turn of a match loop that selected the match m, pushed to the backend
\* with the result bp: the fields afterwards, tbl the history table with
\* the item of the turn pushed, sync the table with the items under the
\* match pushed too; seek says whether a break of the loop sets idx, as
\* match_short does and match_any does not.
Selected(m, bp, pend, tbl, sync, seek) ==
    Bind(m.idx + m.match_len, LAMBDA lit :
    Bind(IF lit > cur + 1 THEN lit ELSE cur + 1, LAMBDA nxt :
        IF lit >= idx
          THEN [pending |-> pend, backend |-> bp.backend, dst |-> bp.dst,
                literal_idx |-> lit, idx |-> IF seek THEN lit ELSE idx,
                table |-> tbl, cur |-> cur, pc |-> "finalize"]
          ELSE [pending |-> pend, backend |-> bp.backend, dst |-> bp.dst,
                literal_idx |-> lit,
                idx |-> IF seek /\ nxt >= idx THEN nxt ELSE idx,
                table |-> sync, cur |-> nxt,
                pc |-> IF nxt >= idx THEN "finalize" ELSE "match"]))

\* A turn of a match loop that selected nothing: the fields afterwards.
Unselected(pend, tbl) ==
    [pending |-> pend, backend |-> backend, dst |-> dst,
     literal_idx |-> literal_idx, idx |-> idx, table |-> tbl, cur |-> cur + 1,
     pc |-> IF cur + 1 = idx THEN "finalize" ELSE "match"]

\* One turn of the hot loop of FrontendRing::match_short: the fields
\* afterwards.
match_short ==
    Bind(Item(ring_get_u32(ring, cur), cur), LAMBDA item :
    Bind(TablePush(backend.type, table, item), LAMBDA tp :
    Bind(find_match_ring(backend.type, ring, head, literal_idx, tp.queue, item,
                         tail - cur), LAMBDA incoming :
    Bind(select(pending, incoming), LAMBDA sel :
        [handed |-> Handed(sel.some, sel.m), found |-> Found(item, incoming)] @@
        IF sel.some
          THEN Selected(sel.m,
                        backend_push_match(backend, dst,
                                           view(ring, literal_idx, sel.m.idx),
                                           sel.m.match_len,
                                           sel.m.idx - sel.m.match_idx),
                        sel.pending, tp.table,
                        SyncRing(backend.type, ring, tp.table, cur + 1,
                                 sel.m.idx + sel.m.match_len),
                        TRUE)
          ELSE Unselected(sel.pending, tp.table)))))

\* One turn of the hot loop of FrontendBytes::match_any: the fields
\* afterwards.
match_any ==
    Bind(Item(get_u32(block, cur), cur), LAMBDA item :
    Bind(TablePush(backend.type, table, item), LAMBDA tp :
    Bind(find_match_bytes(backend.type, block, literal_idx, tp.queue, item),
         LAMBDA incoming :
    Bind(select(pending, incoming), LAMBDA sel :
        [handed |-> Handed(sel.some, sel.m), found |-> Found(item, incoming)] @@
        IF sel.some
          THEN Selected(sel.m,
                        backend_push_match(backend, dst,
                                           SubSeq(block, literal_idx + 1, sel.m.idx),
                                           sel.m.match_len,
                                           sel.m.idx - sel.m.match_idx),
                        sel.pending, tp.table,
                        sync_history(backend.type, src, tp.table, cur + 1,
                                     sel.m.idx + sel.m.match_len),
                        FALSE)
          ELSE Unselected(sel.pending, tp.table)))))

\* The fields s written by a turn of a match loop.
Matched(s) ==
    /\ pending' = s.pending
    /\ backend' = s.backend
    /\ dst' = s.dst
    /\ literal_idx' = s.literal_idx
    /\ idx' = s.idx
    /\ table' = s.table
    /\ cur' = s.cur
    /\ pc' = s.pc
    /\ handed' = s.handed
    /\ found' = s.found
    /\ UNCHANGED aux
    /\ UNCHANGED << variant, src, rest, ring, commit, head, tail, mark, clamp,
                    n_raw_bytes, block, dst_len, n_eos >>
    /\ UNCHANGED decvars

MatchShort ==
    /\ pc = "match"
    /\ variant # "bytes"
    /\ Matched(match_short)

MatchAny ==
    /\ pc = "match"
    /\ variant = "bytes"
    /\ Matched(match_any)

\* flush_pending and flush_literals over the literals lits(a, b) of the
\* frontend, b the end of the input: the backend, the output and the
\* pending match afterwards.
FlushTail(be, d, pend, lit, end, lits(_, _)) ==
    Bind(IF pend.match_len # 0
           THEN backend_push_match(be, d, lits(lit, pend.idx),
                                   pend.match_len, pend.idx - pend.match_idx)
           ELSE [backend |-> be, dst |-> d], LAMBDA p :
    Bind(IF pend.match_len # 0 THEN pend.idx + pend.match_len ELSE lit, LAMBDA l :
    Bind(IF end - l # 0
           THEN backend_push_literals(p.backend, p.dst, lits(l, end))
           ELSE p, LAMBDA q :
        [backend |-> q.backend, dst |-> q.dst,
         pending |-> [pend EXCEPT !.match_len = 0]])))

\* The end of flush_backend reworking only a VN block that is longer than
\* the raw block.
ReworkLonger(vn, src_len, m, d, bytes) ==
    IF vn /\ src_len < RAW_LIMIT /\ src_len + RAW_HEADER_SIZE < Len(d) - m /\ m <= Len(d)
      THEN raw_compress(SubSeq(d, 1, m), bytes)
      ELSE d

\* The end of flush_backend: with a VN block that is not shorter than the
\* raw block and an output that truncates to mark, the block is reworked as
\* a raw block.  vn says whether the block is a VN block, bytes is what
\* flush_raw writes.
Rework(vn, src_len, m, d, bytes) ==
    Bind(truncate(d, m), LAMBDA t :
        IF vn /\ src_len < RAW_LIMIT /\ src_len + RAW_HEADER_SIZE <= Len(d) - m /\ t.ok
          THEN raw_compress(t.dst, bytes)
          ELSE d)

\* FrontendRing::finalize after match_short and the end of flush_backend:
\* the fields afterwards.
finalize_ring ==
    LET lits(a, b) == view(ring, a, b)
    IN  Bind(FlushTail(backend, dst, pending, literal_idx, tail, lits), LAMBDA f :
        Bind(backend_finalize(f.backend, f.dst), LAMBDA d :
            [pending |-> f.pending, backend |-> f.backend, literal_idx |-> tail,
             dst_len |-> Len(d) - backend.mark,
             dst |-> Rework(commit = "Vn", backend.n_raw_bytes, backend.mark, d,
                            view(ring, head, tail))]))

\* FrontendBytes::finalize after match_blocks and the end of
\* flush_backend: the fields afterwards.
finalize_bytes ==
    LET lits(a, b) == SubSeq(block, a + 1, b)
    IN  Bind(FlushTail(backend, dst, pending, literal_idx, Len(block), lits), LAMBDA f :
        Bind(backend_finalize(f.backend, f.dst), LAMBDA d :
            [pending |-> f.pending, backend |-> f.backend,
             literal_idx |-> Len(src),
             dst_len |-> Len(d) - backend.mark,
             dst |-> Rework(backend.type = "vn", Len(src), backend.mark, d, src)]))

\* The fields s written by the end of a flush_backend.
Finalized(s) ==
    /\ pending' = s.pending
    /\ backend' = s.backend
    /\ literal_idx' = s.literal_idx
    /\ dst_len' = s.dst_len
    /\ dst' = s.dst
    /\ pc' = "eos"
    /\ handed' = Handed(pending.match_len # 0, pending)
    /\ UNCHANGED aux
    /\ UNCHANGED << variant, src, rest, ring, table, commit, head, idx, tail,
                    mark, clamp, n_raw_bytes, block, cur, found, n_eos >>
    /\ UNCHANGED decvars

FinalizeRing ==
    /\ pc = "finalize"
    /\ variant # "bytes"
    /\ Finalized(finalize_ring)

FinalizeBytes ==
    /\ pc = "finalize"
    /\ variant = "bytes"
    /\ Finalized(finalize_bytes)

\* The end of flush writing the end of stream magic twice.
WriteEosTwice ==
    /\ pc = "eos"
    /\ dst' = dst \o MagicEos \o MagicEos
    /\ n_eos' = n_eos + 2
    /\ din' = dst \o MagicEos \o MagicEos
    /\ dpos' = 0
    /\ dec' = <<>>
    /\ dstat' = "run"
    /\ dblk' = BlockNone
    /\ pc' = "decode"
    /\ UNCHANGED aux
    /\ UNCHANGED << variant, src, rest >>
    /\ UNCHANGED encvars

\* The end of flush: the end of stream magic.  The frame is then handed to
\* the decoder.
WriteEos ==
    /\ pc = "eos"
    /\ dst' = dst \o MagicEos
    /\ n_eos' = n_eos + 1
    /\ din' = dst \o MagicEos
    /\ dpos' = 0
    /\ dec' = <<>>
    /\ dstat' = "run"
    /\ dblk' = BlockNone
    /\ pc' = "decode"
    /\ UNCHANGED aux
    /\ UNCHANGED << variant, src, rest >>
    /\ UNCHANGED encvars

\* The decoder state r after a step.
Decoded(r) ==
    /\ dpos' = r.pos
    /\ dec' = r.dec
    /\ dstat' = r.stat
    /\ dblk' = r.blk
    /\ pc' = IF r.stat = "run" THEN "decode" ELSE "done"
    /\ UNCHANGED aux
    /\ UNCHANGED << variant, src, rest, dst, n_eos, din >>
    /\ UNCHANGED encvars

\* The decoder between blocks: the next block.
DecodeBlock ==
    /\ pc = "decode"
    /\ dstat = "run"
    /\ dblk.type = "none"
    /\ Decoded(BlockStep(din, dpos, dec))

\* The decoder inside a VN block: the next opcode.
DecodeVn ==
    /\ pc = "decode"
    /\ dstat = "run"
    /\ dblk.type = "vn"
    /\ Decoded(VnStep(din, dpos, dec, dblk))

Next ==
    \/ FrameInit
    \/ Copy
    \/ Write
    \/ FlushRing
    \/ FlushBytes
    \/ MatchShort
    \/ MatchAny
    \/ FinalizeRing
    \/ FinalizeBytes
    \/ WriteEos
    \/ DecodeBlock
    \/ DecodeVn

Spec == Init /\ [][Next]_vars

\* Frames of the inputs at the cutoffs.
InitCutoff ==
    /\ variant \in Variants
    /\ src \in CutoffInputs
    /\ Constructed

SpecCutoff == InitCutoff /\ [][Next]_vars

\* ------------------------------------------------------------------------
\* An encoder used for several frames.
\* ------------------------------------------------------------------------

\* First inputs of a reused encoder: the run structured inputs that take
\* the VN path.
ReuseInputs == {b \in RunInputs : Len(b) > RAW_CUTOFF}

\* Inputs of the frame in between.
StaleInputs == {[i \in 1..MaxLen |-> 1]}

InitReuse ==
    /\ variant \in Variants
    /\ src \in ReuseInputs
    /\ Constructed

\* The next frame on the same encoder: after the first frame a frame of some
\* other input, after that the first input again.
NextFrame ==
    /\ pc = "done"
    /\ frame < MaxFrames
    /\ frame' = frame + 1
    /\ IF frame = 1
         THEN /\ src1' = src
              /\ out1' = dst
              /\ src' \in StaleInputs
         ELSE /\ src' = src1
              /\ UNCHANGED << src1, out1 >>
    /\ pc' = "init"
    /\ UNCHANGED << variant, rest, dst, n_eos, mut, bw, br, chosen, hist,
                    feed, coder, walk, big >>
    /\ UNCHANGED encvars
    /\ UNCHANGED decvars

NextReuse == Next \/ NextFrame

SpecReuse == InitReuse /\ [][NextReuse]_vars

\* ------------------------------------------------------------------------
\* The decoder over damaged frames.
\* ------------------------------------------------------------------------

\* Longest literal run of a block under header mutation.
MaxLiteralLen == 280

\* Number of noise payloads.
MaxSeeds == 24

\* Length of a noise payload.
NoiseLen == 32

\* The backend after the LMDs pushed, b its state [backend, dst] before.
RECURSIVE PushLmds(_, _)
PushLmds(b, lmds) ==
    IF lmds = <<>> THEN b
    ELSE PushLmds(IF Head(lmds)[2] = 0
                    THEN backend_push_literals(b.backend, b.dst, Head(lmds)[1])
                    ELSE backend_push_match(b.backend, b.dst, Head(lmds)[1],
                                            Head(lmds)[2], Head(lmds)[3]),
                  Tail(lmds))

\* The number of bytes the LMDs stand for.
RECURSIVE LmdsLen(_)
LmdsLen(lmds) ==
    IF lmds = <<>> THEN 0
    ELSE Len(Head(lmds)[1]) + Head(lmds)[2] + LmdsLen(Tail(lmds))

\* encode_lmds: the LMDs as a VN block, then the end of stream magic.
encode_lmds(lmds) ==
    Bind(PushLmds(backend_init("vn", <<>>, LmdsLen(lmds)), lmds), LAMBDA b :
        backend_finalize(b.backend, b.dst) \o MagicEos)

\* mutate: the header counts of the VN block at the head of enc changed by
\* the deltas.
mutate(enc, n_raw_bytes_delta, n_payload_bytes_delta) ==
    Bind(U32LE(Count(SubSeq(enc, 5, 8)) + n_raw_bytes_delta)
         \o U32LE(Count(SubSeq(enc, 9, 12)) + n_payload_bytes_delta), LAMBDA hdr :
        [i \in 1..Len(enc) |->
            IF i > 4 /\ i <= VN_HEADER_SIZE THEN hdr[i - 4] ELSE enc[i]])

\* check_mutate: the four bytes from index on overwritten by v.
Overwrite(data, index, v) ==
    [i \in 1..Len(data) |-> IF i > index /\ i <= index + 4 THEN v ELSE data[i]]

\* Valid frames: a raw block, and VN blocks with small and large literal
\* runs, matches at a new and at the previous distance, and a long match.
ValidFrames ==
    { raw_compress(<<>>, Noise(5)) \o MagicEos,
      encode_lmds(<< <<Noise(2), 5, 2>>, <<Noise(1), 4, 2>>, <<Noise(3), 0, 0>> >>),
      encode_lmds(<< <<Noise(17), 20, 5>>, <<Noise(4), 3, 9>>, <<Noise(0), 12, 9>> >>) }

\* The frame handed to the decoder, m what was done to it.
StartDecode(bytes, m) ==
    /\ din' = bytes
    /\ dpos' = 0
    /\ dec' = <<>>
    /\ dstat' = "run"
    /\ dblk' = BlockNone
    /\ mut' = m
    /\ pc' = "decode"
    /\ UNCHANGED << variant, src, rest, dst, n_eos, frame, src1, out1, bw, br, chosen, hist,
                    feed, coder, walk, big >>
    /\ UNCHANGED encvars

\* mutate_block_1 .. mutate_block_4: a block of one literal run, one of its
\* header counts changed by one.
MutateBlock ==
    /\ pc = "init"
    /\ \E literal_len \in 1..MaxLiteralLen, d \in {-1, 1} :
        \/ StartDecode(mutate(encode_lmds(<< <<Noise(literal_len), 0, 0>> >>), 0, d),
                       [kind |-> "n_payload_bytes", at |-> literal_len, by |-> d])
        \/ StartDecode(mutate(encode_lmds(<< <<Noise(literal_len), 0, 0>> >>), d, 0),
                       [kind |-> "n_raw_bytes", at |-> literal_len, by |-> d])

\* check_mutate: a valid frame with four bytes overwritten by 00 or FF.
Mutate3 ==
    /\ pc = "init"
    /\ \E f \in ValidFrames :
        \E index \in 0..(Len(f) - 4), v \in {0, 255} :
            StartDecode(Overwrite(f, index, v),
                        [kind |-> "overwrite", at |-> index, by |-> v])

\* check_decode_hash: a valid frame as it is.
CheckDecode ==
    /\ pc = "init"
    /\ \E f \in ValidFrames :
        StartDecode(f, [kind |-> "valid", at |-> Len(f), by |-> 0])

\* fuzz_noise: the VN magic and a payload of noise.
FuzzNoise ==
    /\ pc = "init"
    /\ \E seed \in 1..MaxSeeds :
        StartDecode(MagicVxn \o [i \in 1..NoiseLen |-> NoiseAt(i + 97 * seed)],
                    [kind |-> "noise", at |-> seed, by |-> 0])

InitDecode ==
    /\ variant = "bytes"
    /\ src = <<>>
    /\ Constructed

NextDecode ==
    \/ MutateBlock
    \/ Mutate3
    \/ CheckDecode
    \/ FuzzNoise
    \/ DecodeBlock
    \/ DecodeVn

SpecDecode == InitDecode /\ [][NextDecode]_vars

\* ------------------------------------------------------------------------
\* bits: BitWriter and BitReader.
\* ------------------------------------------------------------------------

\* Most pairs pushed to a BitWriter.
MaxPairs == 4

\* Most bits pulled beyond the pairs pushed.
MaxOver == 2

\* bit_reader.rs ACCUM_MAX on a 64 bit target.
ACCUM_MAX == 64

\* Widths of the pairs pushed.
BitWidths == {0, 7, 30}

RECURSIVE Pow2(_)
Pow2(n) == IF n = 0 THEN 1 ELSE 2 * Pow2(n - 1)

\* Values of n bits pushed: no bit set, every bit set, the top bit only.
BitValues(n) == {0, Pow2(n) - 1, Pow2(n) \div 2}

\* The low n bits of v, the least significant first.
Bits(v, n) == [j \in 1..n |-> (v \div Pow2(j - 1)) % 2]

\* Bit j (from 1) of a bit string, 0 past its end.
BitAt(b, j) == IF j <= Len(b) THEN b[j] ELSE 0

\* Byte k (from 0) of a bit string.
PackByte(b, k) ==
    BitAt(b, 8 * k + 1) + 2 * BitAt(b, 8 * k + 2) + 4 * BitAt(b, 8 * k + 3)
    + 8 * BitAt(b, 8 * k + 4) + 16 * BitAt(b, 8 * k + 5) + 32 * BitAt(b, 8 * k + 6)
    + 64 * BitAt(b, 8 * k + 7) + 128 * BitAt(b, 8 * k + 8)

\* BitWriter::push and flush: the bits join the accumulator above the bits
\* it holds, and the whole bytes leave for the destination.
BitWriterPush(w, v, n) ==
    Bind(w.accum \o Bits(v, n), LAMBDA a :
        [accum |-> SubSeq(a, 8 * (Len(a) \div 8) + 1, Len(a)),
         dst |-> w.dst \o [k \in 1..(Len(a) \div 8) |-> PackByte(a, k - 1)],
         ws |-> Append(w.ws, <<v, n>>)])

\* BitWriter::finalize: the bits left leave as a last byte; the bytes, and
\* the number of unused bits of the last byte.
BitWriterFinalize(w) ==
    [bytes |-> IF w.accum = <<>> THEN w.dst ELSE Append(w.dst, PackByte(w.accum, 0)),
     off |-> IF w.accum = <<>> THEN 0 ELSE 8 - Len(w.accum)]

\* BitSrc::read_bytes for a slice: the word at index, zero for a negative
\* index.
read_bytes(inner, index) ==
    IF index >= 0 THEN SubSeq(inner, index + 1, index + WORD) ELSE Zeros(WORD)

\* Bit p (from 0) of a little endian word, 0 above the word.
DataBit(d, p) == IF p < ACCUM_MAX THEN (d[(p \div 8) + 1] \div Pow2(p % 8)) % 2 ELSE 0

\* BitReader::new
BitReaderNew(inner, off, ws) ==
    Bind(read_bytes(inner, Len(inner) - WORD), LAMBDA accum_data :
        [inner |-> inner, accum_data |-> accum_data,
         accum_bits |-> ACCUM_MAX - off, index |-> Len(inner) - WORD,
         off |-> off, pulled |-> 0, left |-> Len(ws), over |-> 0, same |-> TRUE,
         result |-> IF off # 0 /\ accum_data[WORD] \div Pow2(8 - off) # 0
                      THEN "BadBitStream" ELSE "none"])

\* BitReader::flush counting a byte for every bit pulled.
flush_ceil(r) ==
    Bind((ACCUM_MAX - r.accum_bits + 7) \div 8, LAMBDA n_bytes :
        [r EXCEPT !.index = r.index - n_bytes,
                  !.accum_data = read_bytes(r.inner, r.index - n_bytes),
                  !.accum_bits = r.accum_bits + 8 * n_bytes])

\* BitReader::flush
flush(r) ==
    Bind((ACCUM_MAX - r.accum_bits) \div 8, LAMBDA n_bytes :
        [r EXCEPT !.index = r.index - n_bytes,
                  !.accum_data = read_bytes(r.inner, r.index - n_bytes),
                  !.accum_bits = r.accum_bits + 8 * n_bytes])

\* bit_mask::mask of the word d shifted right by s: its low n bits.
RECURSIVE mask(_, _, _)
mask(d, s, n) ==
    IF n = 0 THEN 0 ELSE DataBit(d, s) + 2 * mask(d, s + 1, n - 1)

\* BitReader::pull: the reader afterwards and the value pulled.
pull(r, n_bits) ==
    [rdr |-> [r EXCEPT !.accum_bits = r.accum_bits - n_bits,
                       !.pulled = r.pulled + n_bits],
     u |-> mask(r.accum_data, (r.accum_bits - n_bits) % ACCUM_MAX, n_bits)]

\* BitReader::finalize
finalize(r) ==
    Bind(flush(r), LAMBDA f :
        IF f.accum_bits + f.index * 8 < 64 THEN "PayloadUnderflow" ELSE "Ok")

\* The bits of the payload: all bits but the pad and the initial offset.
PayloadBits(r) == 8 * (Len(r.inner) - WORD) - r.off

\* The fields the bit stream steps leave alone.
BitFrame ==
    /\ UNCHANGED << variant, src, rest, dst, n_eos, frame, src1, out1, mut, chosen,
                    hist, feed, coder, walk, big >>
    /\ UNCHANGED encvars
    /\ UNCHANGED decvars

\* A pair pushed to the writer.
BitPush ==
    /\ pc = "init"
    /\ Len(bw.ws) < MaxPairs
    /\ \E n \in BitWidths :
        \E v \in BitValues(n) : bw' = BitWriterPush(bw, v, n)
    /\ UNCHANGED << pc, br >>
    /\ BitFrame

\* The writer finalized and a reader constructed over its bytes with the
\* offset it reports.
BitFinish ==
    /\ pc = "init"
    /\ br' = BitReaderNew(BitWriterFinalize(bw).bytes, BitWriterFinalize(bw).off, bw.ws)
    /\ pc' = IF br'.result = "none" THEN "bits" ELSE "done"
    /\ UNCHANGED bw
    /\ BitFrame

\* The reader r after the pull p of the pair <<v, n>>.
Pulled(p, v) ==
    [p.rdr EXCEPT !.left = @ - 1, !.same = @ /\ p.u = v]

\* The consumer flushes and pulls the width of the last pair not yet
\* pulled.
BitPull ==
    /\ pc = "bits"
    /\ br.left > 0
    /\ br.over = 0
    /\ br' = Pulled(pull(flush(br), bw.ws[br.left][2]), bw.ws[br.left][1])
    /\ UNCHANGED << pc, bw >>
    /\ BitFrame

\* The consumer pulls a bit beyond the pairs pushed.
BitPullOver ==
    /\ pc = "bits"
    /\ br.left = 0
    /\ br.over < MaxOver
    /\ br' = [pull(br, 1).rdr EXCEPT !.over = @ + 1]
    /\ UNCHANGED << pc, bw >>
    /\ BitFrame

\* The consumer finalizes the reader, whatever it pulled.
BitFinalize ==
    /\ pc = "bits"
    /\ br' = [br EXCEPT !.result = finalize(br)]
    /\ pc' = "done"
    /\ UNCHANGED bw
    /\ BitFrame

InitBits ==
    /\ variant = "bytes"
    /\ src = <<>>
    /\ Constructed

NextBits ==
    \/ BitPush
    \/ BitFinish
    \/ BitPull
    \/ BitPullOver
    \/ BitFinalize

SpecBits == InitBits /\ [][NextBits]_vars

\* ------------------------------------------------------------------------
\* Match::select over a sequence of incoming matches.
\* ------------------------------------------------------------------------

\* Calls of select on one receiver.
MaxCalls == 3

\* Positions and lengths of the incoming matches: empty, short, one short
\* of GOOD_MATCH_LEN, GOOD_MATCH_LEN and longer.
SelectIdx == {44, 48, 52}

SelectLen == {0, 4, 6, GOOD_MATCH_LEN - 1, GOOD_MATCH_LEN, GOOD_MATCH_LEN + 1}

Incoming ==
    {Match(i, mi, ml) : i \in SelectIdx, mi \in {0, 3}, ml \in SelectLen}

\* self.select(incoming): the receiver before and after, and the Option
\* returned.
Select ==
    /\ chosen.calls < MaxCalls
    /\ \E incoming \in Incoming :
        chosen' = Bind(select(chosen.pending, incoming), LAMBDA r :
                   [before |-> chosen.pending, incoming |-> incoming,
                    some |-> r.some, m |-> r.m, pending |-> r.pending,
                    calls |-> chosen.calls + 1])
    /\ UNCHANGED << variant, src, rest, pc, dst, n_eos, frame, src1, out1, mut,
                    bw, br, hist, feed, coder, walk, big >>
    /\ UNCHANGED encvars
    /\ UNCHANGED decvars

InitSelect ==
    /\ variant = "bytes"
    /\ src = <<>>
    /\ Constructed

NextSelect == Select

SpecSelect == InitSelect /\ [][NextSelect]_vars

\* ------------------------------------------------------------------------
\* HistoryTable: pushes after a reset, and clamps.
\* ------------------------------------------------------------------------

\* Pushes after the reset.
MaxPushes == 6

\* The words pushed; they fall into different buckets.
HistoryVals == {<<0, 0, 0, 0>>, <<1, 0, 0, 0>>, <<2, 0, 0, 0>>}

\* HistoryTable::push of a word at idx, the next push at a larger idx; cur
\* counts the pushes.
Push ==
    /\ cur < MaxPushes
    /\ \E val \in HistoryVals, step \in 1..2 :
        /\ table' = TablePush("fse", table, Item(val, idx)).table
        /\ idx' = idx + step
    /\ cur' = cur + 1
    /\ UNCHANGED aux
    /\ UNCHANGED << variant, src, rest, pc, ring, commit, pending, head,
                    literal_idx, tail, mark, clamp, n_raw_bytes, block, dst_len,
                    backend, handed, found, dst, n_eos >>
    /\ UNCHANGED decvars

InitHistory ==
    /\ variant = "bytes"
    /\ src = <<>>
    /\ Constructed

NextHistory == Push

SpecHistory == InitHistory /\ [][NextHistory]_vars

\* How far behind the clamp idx the entries of a table are, as u32 from
\* the nearest: those at most Q1 behind, 0, 1, Q1 - 1, Q1.
NearAges == << 0, 1, Q1 - 1, Q1 >>

\* Those more than Q1 behind: Q1 + 1, Q2 - 1, Q2, Q3 - 1.
FarAges == << Q1 + 1, I32_MAX, 0 - I32_MAX - 1, 0 - Q1 - 1 >>

Ages == NearAges \o FarAges

\* The idx values a table is clamped at: Q0, a small one, Q1 and Q2.
ClampIdx == {0, 5, Q1, 0 - I32_MAX - 1}

\* The deltas of clamp_rebias.
ClampDelta == {0, 1, Q1}

\* The queues of a table by the ages of their entries, newest first: one
\* queue of any ages, one of four entries of the same age.
AgeTables ==
    {<< <<a, b, c, d>>, <<e, e, e, e>> >> :
        a \in 1..Len(Ages), b \in 1..Len(Ages), c \in 1..Len(Ages),
        d \in 1..Len(Ages), e \in 1..Len(Ages)}

\* The table whose entries have the ages ages[h][k] at idx i, each entry
\* with a val of its own.
HistoryAt(ages, i) ==
    [h \in 1..Len(ages) |->
        [k \in 1..HASH_WIDTH |->
            Item(<<h, k, 0, 0>>, wrapping_sub(i, Ages[ages[h][k]]))]]

\* The table as pushes of increasing idx leave it: the entries of a queue
\* in the order of their ages, none of them wrapping.
Fill ==
    /\ pc = "init"
    /\ \E ages \in AgeTables, i \in ClampIdx :
        /\ ages[1][1] <= ages[1][2]
        /\ ages[1][2] <= ages[1][3]
        /\ ages[1][3] <= ages[1][4]
        /\ table' = HistoryAt(ages, i)
        /\ idx' = i
        /\ hist' = [hist EXCEPT !.ages = ages]
    /\ pc' = "fill"
    /\ UNCHANGED << frame, src1, out1, mut, bw, br, chosen, feed, coder, walk, big >>
    /\ UNCHANGED << variant, src, rest, ring, commit, pending, head,
                    literal_idx, tail, mark, clamp, n_raw_bytes, block, cur,
                    dst_len, backend, handed, found, dst, n_eos >>
    /\ UNCHANGED decvars

\* The table t after a clamp call op at idx with delta, no entry wrapping
\* before the call.
Clamped(op, t, delta) ==
    /\ \A h \in DOMAIN table : \A k \in 1..HASH_WIDTH :
        ~is_wrapping(idx, table[h][k].idx)
    /\ table' = t
    /\ hist' = [hist EXCEPT !.op = op, !.idx = idx, !.delta = delta,
                            !.before = table]
    /\ pc' = "clamp"
    /\ UNCHANGED << frame, src1, out1, mut, bw, br, chosen, feed, coder, walk, big >>
    /\ UNCHANGED << variant, src, rest, ring, commit, pending, head,
                    literal_idx, idx, tail, mark, clamp, n_raw_bytes, block,
                    cur, dst_len, backend, handed, found, dst, n_eos >>
    /\ UNCHANGED decvars

\* HistoryTable::clamp(idx)
Clamp ==
    /\ pc = "fill"
    /\ Clamped("clamp", table_clamp(table, idx), 0)

\* HistoryTable::clamp_rebias(idx, delta)
ClampRebias ==
    /\ pc = "fill"
    /\ \E delta \in ClampDelta :
        Clamped("clamp_rebias", table_clamp_rebias(table, idx, delta), delta)

NextClamp ==
    \/ Fill
    \/ Clamp
    \/ ClampRebias

SpecClamp == InitHistory /\ [][NextClamp]_vars

\* ------------------------------------------------------------------------
\* FrontendRing over long frames: the indices of the frontend, with the
\* bytes of the input left out and the outcome of find_match open.
\* ------------------------------------------------------------------------

\* Turns of a match loop taken one by one; the turns that follow find no
\* match.
MaxTurns == 2

\* Slices handed to write in a frame before the last.
MaxSlices == 3

\* ring::object::overmatch_len
overmatch_len(len) == len + 5 * WORD

OVERMATCH_LEN == overmatch_len(4)

OVERMATCH_SLACK == 4 + OVERMATCH_LEN

\* FrontendRing::LONG_MATCH_LEN
LONG_MATCH_LEN == RING_SIZE \div 2 - RING_BLK_SIZE - OVERMATCH_SLACK

\* Lengths of the long frames: the empty input, inputs around the cutoffs,
\* and inputs that fill the ring and run over it.
FeedLengths ==
    {0, 3, RAW_CUTOFF + 1, VN_CUTOFF + 1, RING_BLK_SIZE, RING_SIZE - 1,
     RING_SIZE, RING_SIZE + 3, RING_SIZE + RING_BLK_SIZE + RAW_CUTOFF + 1,
     RING_SIZE + 3 * RING_BLK_SIZE}

\* Lengths of the slices of a write, when the input is longer.
SliceLengths == {RAW_CUTOFF + 1, RING_BLK_SIZE, RING_SIZE \div 2 + 3}

\* The indices z of the frontend written back, after the step named step.
Stepped(z, step) ==
    /\ commit' = z.commit
    /\ pending' = z.pending
    /\ head' = z.head
    /\ literal_idx' = z.literal_idx
    /\ idx' = z.idx
    /\ tail' = z.tail
    /\ mark' = z.mark
    /\ clamp' = z.clamp
    /\ cur' = z.cur
    /\ pc' = z.pc
    /\ feed' = [z.feed EXCEPT !.step = step]
    /\ UNCHANGED << frame, src1, out1, mut, bw, br, chosen, hist, coder, walk, big >>
    /\ UNCHANGED << variant, src, rest, ring, table, block, dst_len, backend,
                    handed, found, dst, n_eos >>
    /\ UNCHANGED decvars

\* The indices of the frontend as they are.
Indices ==
    [commit |-> commit, pending |-> pending, head |-> head,
     literal_idx |-> literal_idx, idx |-> idx, tail |-> tail, mark |-> mark,
     clamp |-> clamp, cur |-> cur, pc |-> pc, feed |-> feed]

\* The ring written with len bytes from the index at on: a write that
\* reaches the first or the last RING_LIMIT bytes leaves their shadow behind.
zone_written(f, at, len) ==
    [f EXCEPT
        !.head_stale = f.head_stale \/ (len > 0 /\ at % RING_SIZE < RING_LIMIT),
        !.tail_stale = f.tail_stale
            \/ (len > 0 /\ (at % RING_SIZE) + len > RING_SIZE - RING_LIMIT)]

\* manage_ring_zones without the copy of the tail.
zones_managed_head(f, m) ==
    IF m % RING_SIZE = RING_BLK_SIZE THEN [f EXCEPT !.head_stale = FALSE]
    ELSE f

\* FrontendRing::manage_ring_zones: head_copy_out or tail_copy_out by the
\* mark.
zones_managed(f, m) ==
    IF m % RING_SIZE = RING_BLK_SIZE THEN [f EXCEPT !.head_stale = FALSE]
    ELSE IF m % RING_SIZE = 0 THEN [f EXCEPT !.tail_stale = FALSE]
    ELSE f

\* FrontendRing::init before a frame of n bytes.
FeedInit ==
    /\ pc = "init"
    /\ \E n \in FeedLengths :
        /\ Stepped([Indices EXCEPT
                       !.commit = "None", !.pending = MatchDefault, !.head = 0,
                       !.literal_idx = 0, !.idx = 0, !.tail = 0,
                       !.mark = RING_BLK_SIZE, !.clamp = Q1, !.pc = "fill",
                       !.feed = [FeedNone EXCEPT !.left = n, !.total = n]], "init")
    /\ UNCHANGED n_raw_bytes

\* FrontendRing::copy_block: read_fully fills the block at tail or takes
\* what the reader has left.
CopyBlock ==
    /\ pc = "fill"
    /\ variant = "ring"
    /\ Bind(Min2(feed.left, RING_BLK_SIZE), LAMBDA len :
        /\ Stepped([Indices EXCEPT
                       !.tail = tail + len,
                       !.pc = IF len = RING_BLK_SIZE THEN "block" ELSE "flush",
                       !.feed = [zone_written(feed, tail, len) EXCEPT
                                    !.left = feed.left - len]],
                   "copy_block")
        /\ n_raw_bytes' = n_raw_bytes + len)

\* FrontendRing::write called with a slice of n bytes; after MaxSlices
\* slices the rest of the input comes in one.
WriteSlice ==
    /\ pc = "fill"
    /\ variant = "writer"
    /\ feed.left > 0
    /\ \E n \in {k \in SliceLengths : k < feed.left /\ feed.slices < MaxSlices}
                   \cup {feed.left} :
        Stepped([Indices EXCEPT
                    !.pc = "write",
                    !.feed = [feed EXCEPT !.left = feed.left - n, !.slice = n,
                                          !.slices = feed.slices + 1]],
                feed.step)
    /\ UNCHANGED n_raw_bytes

\* FrontendRing::write_block: the slice up to the mark.
WriteBlock ==
    /\ pc = "write"
    /\ Bind(mark - tail, LAMBDA limit :
        IF feed.slice < limit
          THEN Stepped([Indices EXCEPT
                           !.tail = tail + feed.slice, !.pc = "fill",
                           !.feed = [zone_written(feed, tail, feed.slice)
                                        EXCEPT !.slice = 0]], "write_block")
          ELSE Stepped([Indices EXCEPT
                           !.tail = tail + limit, !.pc = "block",
                           !.feed = [zone_written(feed, tail, limit) EXCEPT
                                        !.slice = feed.slice - limit]],
                       "write_block"))
    /\ UNCHANGED n_raw_bytes

\* reposition_head without the rounding to blocks.
reposition_head_exact(z) ==
    Bind(z.idx - z.head, LAMBDA delta :
        [z EXCEPT !.head = z.head + (delta - RING_SIZE \div 2)])

\* FrontendRing::reposition_head
reposition_head(z) ==
    Bind(z.idx - z.head, LAMBDA delta :
        [z EXCEPT !.head = z.head + ((delta - RING_SIZE \div 2) \div RING_BLK_SIZE)
                                        * RING_BLK_SIZE])

\* push_literal_overflow that leaves the literals below the head.
push_literal_overflow_none(z) == z

\* FrontendRing::push_literals of len bytes.
push_literals(z, len) ==
    [z EXCEPT !.literal_idx = z.literal_idx + len,
              !.feed = [z.feed EXCEPT !.pushed = z.feed.pushed + len]]

\* FrontendRing::push_match: the literals up to the match and the match.
push_match(z, m) ==
    [z EXCEPT !.literal_idx = m.idx + m.match_len,
              !.feed = [z.feed EXCEPT !.pushed =
                           z.feed.pushed + (m.idx - z.literal_idx) + m.match_len]]

\* FrontendRing::push_literal_overflow
push_literal_overflow(z) ==
    IF z.literal_idx < z.head
      THEN push_literals([z EXCEPT
                             !.pending = [z.pending EXCEPT !.match_len = 0],
                             !.feed = [z.feed EXCEPT !.dropped =
                                          z.feed.dropped \/ z.pending.match_len # 0]],
                         z.head - z.literal_idx)
      ELSE z

\* FrontendRing::clamp
ring_clamp(z) ==
    IF z.idx - z.clamp >= 0
      THEN [z EXCEPT !.clamp = wrapping_sub(z.clamp, 0 - Q1)]
      ELSE z

\* The end of match_block after match_long: reposition_head,
\* push_literal_overflow, clamp and the new mark; copy reads the next block
\* and write goes on with its slice.
long_end(z) ==
    Bind(ring_clamp(push_literal_overflow(reposition_head(z))), LAMBDA y :
        [y EXCEPT !.mark = y.tail + RING_BLK_SIZE,
                  !.pc = IF variant = "ring" THEN "fill" ELSE "write",
                  !.feed = [y.feed EXCEPT !.full = TRUE, !.loop = "none",
                                          !.step = "match_block"]])

\* FrontendRing::flush_pending
flush_pending(z) ==
    IF z.pending.match_len # 0
      THEN [push_match(z, z.pending) EXCEPT !.pending.match_len = 0]
      ELSE z

\* A flush_literals that pushes nothing.
flush_literals_none(z) == z

\* FrontendRing::flush_literals
flush_literals(z) ==
    IF z.tail - z.literal_idx # 0
      THEN push_literals(z, z.tail - z.literal_idx)
      ELSE z

\* flush_pending and flush_literals at the end of finalize.
short_end(z) ==
    Bind(flush_literals(flush_pending(z)), LAMBDA y :
        [y EXCEPT !.pc = "done",
                  !.feed = [y.feed EXCEPT !.loop = "none", !.step = "flush"]])

\* The end of the match loop under way.
loop_end(z) == IF z.feed.loop = "long" THEN long_end(z) ELSE short_end(z)

\* FrontendRing::match_block: short of a full ring the mark moves on by a
\* block; on a full ring the frontend commits to Fse and match_long starts.
MatchBlock ==
    /\ pc = "block"
    /\ IF mark # head + RING_SIZE
         THEN Stepped([Indices EXCEPT
                          !.mark = mark + RING_BLK_SIZE,
                          !.pc = IF variant = "ring" THEN "fill" ELSE "write",
                          !.feed = [zones_managed(feed, mark) EXCEPT
                                       !.full = FALSE]], "match_block")
         ELSE Stepped([Indices EXCEPT
                          !.commit = "Fse", !.cur = idx,
                          !.idx = head + RING_SIZE \div 2 + RING_BLK_SIZE,
                          !.pc = "loop",
                          !.feed = [zones_managed(feed, mark) EXCEPT
                                       !.loop = "long", !.ty = "fse",
                                       !.turns = 0, !.head0 = head]],
                      feed.step)
    /\ UNCHANGED n_raw_bytes

\* Turns of the hot loop that find no match: the local index moves up to
\* the index n, and the loop ends when that is self.idx.
LoopSkip ==
    /\ pc = "loop"
    /\ \E n \in {k \in {cur + 1, idx - 1, idx} : k > cur} :
        /\ n = idx \/ feed.turns < MaxTurns
        /\ Bind([Indices EXCEPT
                    !.cur = n,
                    !.feed = [feed EXCEPT !.turns =
                                 IF n = idx THEN feed.turns ELSE feed.turns + 1]],
                LAMBDA z : Stepped(IF n = idx THEN loop_end(z) ELSE z,
                                   IF n = idx THEN loop_end(z).feed.step
                                   ELSE feed.step))
    /\ UNCHANGED n_raw_bytes

\* The longest match_unit_coarse can return in the loop under way: in
\* match_long LONG_MATCH_LEN and what the coarse comparison runs over, in
\* match_short what is left up to the tail.
MaxInc == IF feed.loop = "long" THEN LONG_MATCH_LEN + OVERMATCH_LEN ELSE tail - cur

\* The matches find_match can return for the item at the local index: a
\* candidate at the distance d that matches over inc bytes, moved back
\* by back bytes.
Candidates ==
    {Match(cur - back, cur - d - back, inc + back) :
        d \in {k \in {1, MAX_MATCH_DISTANCE(feed.ty)} : cur - k >= head},
        inc \in {k \in {MATCH_UNIT(feed.ty), GOOD_MATCH_LEN - 1, GOOD_MATCH_LEN,
                        LONG_MATCH_LEN, MaxInc} : k <= MaxInc},
        back \in {0, 1, Min2(cur - literal_idx, RING_SIZE \div 4)}}

\* A turn of the hot loop of match_long or match_short in which find_match
\* returns the match incoming.
LoopFind ==
    /\ pc = "loop"
    /\ feed.turns < MaxTurns
    /\ \E incoming \in Candidates :
        /\ incoming.match_idx >= head
        /\ incoming.idx >= literal_idx
        /\ Bind(select(pending, incoming), LAMBDA sel :
           Bind(IF sel.some THEN sel.m.idx + sel.m.match_len ELSE literal_idx,
                LAMBDA lit :
           Bind(IF sel.some /\ lit > cur + 1 THEN lit ELSE cur + 1, LAMBDA nxt :
           Bind([(IF sel.some THEN push_match(Indices, sel.m) ELSE Indices) EXCEPT
                    !.pending = sel.pending, !.cur = nxt,
                    !.idx = IF sel.some /\ nxt >= idx THEN nxt ELSE idx,
                    !.feed.turns = feed.turns + 1],
                LAMBDA z :
               IF nxt >= idx
                 THEN Stepped(loop_end(z), loop_end(z).feed.step)
                 ELSE Stepped(z, feed.step)))))
    /\ UNCHANGED n_raw_bytes

\* FrontendRing::flush up to match_short, called when copy has read the
\* input to its end or after the last write: with Fse committed finalize,
\* else flush_select by the length of the input; a raw block and an input
\* too short for match_short end the flush.
FeedFlush ==
    /\ \/ pc = "flush"
       \/ pc = "fill" /\ variant = "writer" /\ feed.left = 0
    /\ Bind(IF commit = "Fse" THEN "fse" ELSE SelectType(tail - idx), LAMBDA ty :
        IF ty = "raw"
          THEN Stepped([Indices EXCEPT !.literal_idx = tail, !.pc = "done",
                                       !.feed = zones_managed(feed, mark)],
                       "flush")
          ELSE Bind([Indices EXCEPT
                        !.commit = IF ty = "vn" THEN "Vn" ELSE "Fse",
                        !.feed = [zones_managed(feed, mark) EXCEPT
                                     !.ty = ty, !.loop = "short",
                                     !.turns = 0]], LAMBDA z :
               IF tail - idx < 4
                 THEN Stepped(short_end(z), "flush")
                 ELSE Stepped([z EXCEPT !.cur = idx,
                                        !.idx = tail - MATCH_UNIT(ty) + 1,
                                        !.pc = "loop"], feed.step)))
    /\ UNCHANGED n_raw_bytes

InitFeed ==
    /\ variant \in {"ring", "writer"}
    /\ src = <<>>
    /\ Constructed

NextFeed ==
    \/ FeedInit
    \/ CopyBlock
    \/ WriteSlice
    \/ WriteBlock
    \/ MatchBlock
    \/ LoopSkip
    \/ LoopFind
    \/ FeedFlush

SpecFeed == InitFeed /\ [][NextFeed]_vars

\* ------------------------------------------------------------------------
\* fse: the tables of the decoder and of the encoder, Literals and Lmds
\* stored and loaded over the bit stream.
\* ------------------------------------------------------------------------

\* Literals of a buffer, before the padding to four.
MaxLiterals == 5

\* LMDs of a buffer.
MaxLmds == 2

\* Symbols of an alphabet that are given a weight: the first of it.
MaxSymbols == 3

U_STATES == 1024

L_STATES == 64

M_STATES == 64

D_STATES == 256

\* The extra bits and the base values of the first symbols of the L, M and
\* D alphabets: a value is base(symbol) + extra(k bits).
L_EXTRA_BITS == <<0, 0, 2>>

L_BASE_VALUE == <<0, 1, 2>>

M_EXTRA_BITS == <<0, 1, 3>>

M_BASE_VALUE == <<0, 1, 3>>

D_EXTRA_BITS == <<0, 1, 2>>

D_BASE_VALUE == <<0, 1, 3>>

\* The blocks of the V table: the states, the offset in the table, the
\* extra bits and the base values.
LBlock == [n |-> L_STATES, off |-> 0, bits |-> L_EXTRA_BITS, base |-> L_BASE_VALUE]

MBlock == [n |-> M_STATES, off |-> L_STATES, bits |-> M_EXTRA_BITS,
           base |-> M_BASE_VALUE]

DBlock == [n |-> D_STATES, off |-> L_STATES + M_STATES, bits |-> D_EXTRA_BITS,
           base |-> D_BASE_VALUE]

\* The number of bits of n less one: 31 - n.leading_zeros().
RECURSIVE Log2(_)
Log2(n) == IF n <= 1 THEN 0 ELSE 1 + Log2(n \div 2)

\* The entry of a symbol whose first deltas are not brought back by the
\* number of states.
SymbolEntryUnbiased(w, j, k, n_states, offset, symbol) ==
    Bind((2 * n_states) \div Pow2(k) - w, LAMBDA x :
        IF j < x
          THEN [k |-> k, delta |-> (w + j) * Pow2(k) + offset,
                symbol |-> symbol, latch |-> FALSE]
          ELSE [k |-> k - 1, delta |-> (j - x) * Pow2(k - 1) + offset,
                symbol |-> symbol, latch |-> FALSE])

\* The entry of the symbol (from 0) of weight w that covers the index, j
\* the index less the weights before the symbol and k the bits of the
\* symbol.
SymbolEntry(w, j, k, n_states, offset, symbol) ==
    Bind((2 * n_states) \div Pow2(k) - w, LAMBDA x :
        IF j < x
          THEN [k |-> k, delta |-> (w + j) * Pow2(k) - n_states + offset,
                symbol |-> symbol, latch |-> FALSE]
          ELSE [k |-> k - 1, delta |-> (j - x) * Pow2(k - 1) + offset,
                symbol |-> symbol, latch |-> FALSE])

\* A table whose uncovered entries send the state back to the first state
\* of the block.
TableEntryReset(weights, n_states, offset, s) ==
    Bind({i \in 1..Len(weights) : SumTo(weights, i - 1) <= s /\ s < SumTo(weights, i)},
         LAMBDA syms :
        IF syms = {}
          THEN [k |-> 0, delta |-> offset, symbol |-> 0, latch |-> TRUE]
          ELSE Bind(CHOOSE i \in syms : TRUE, LAMBDA i :
                   SymbolEntry(weights[i], s - SumTo(weights, i - 1),
                               Log2(n_states) - Log2(weights[i]), n_states, offset,
                               i - 1)))

\* build_u_table and build_v_table_block: the entry at index s of a table
\* of n_states built from weights, symbol numbered from 0. An index no
\* weight covers is a latch.
TableEntry(weights, n_states, offset, s) ==
    Bind({i \in 1..Len(weights) : SumTo(weights, i - 1) <= s /\ s < SumTo(weights, i)},
         LAMBDA syms :
        IF syms = {}
          THEN [k |-> 0, delta |-> offset + s, symbol |-> 0, latch |-> TRUE]
          ELSE Bind(CHOOSE i \in syms : TRUE, LAMBDA i :
                   SymbolEntry(weights[i], s - SumTo(weights, i - 1),
                               Log2(n_states) - Log2(weights[i]), n_states, offset,
                               i - 1)))

\* UEntry::decode through Decoder::u: the reader and the state afterwards,
\* and the literal.
decode_u(weights, r, state) ==
    Bind(TableEntry(weights, U_STATES, 0, state), LAMBDA e :
    Bind(pull(r, e.k), LAMBDA p :
        [rdr |-> p.rdr, state |-> p.u + e.delta, u |-> e.symbol]))

\* VEntry::decode through Decoder::l, m and d, b the block of the table.
decode_v(b, weights, r, state) ==
    Bind(TableEntry(weights, b.n, b.off, state - b.off), LAMBDA e :
    Bind(pull(r, e.k), LAMBDA p :
    Bind(pull(p.rdr, IF e.latch THEN 0 ELSE b.bits[e.symbol + 1]), LAMBDA q :
        [rdr |-> q.rdr, state |-> p.u + e.delta,
         u |-> (IF e.latch THEN 0 ELSE b.base[e.symbol + 1]) + q.u])))

\* The entry of the encoder for a symbol: (s0, k, delta0, delta1).
EncoderEntry(weights, n_states, symbol) ==
    Bind(weights[symbol + 1], LAMBDA w :
    Bind(Log2(n_states) - Log2(w), LAMBDA k :
    Bind(SumTo(weights, symbol), LAMBDA total :
        [s0 |-> w * Pow2(k) - n_states, k |-> k,
         delta0 |-> total - w + n_states \div Pow2(k),
         delta1 |-> total - w + (2 * n_states) \div Pow2(k)])))

\* The encoder in state s takes a symbol: the low k or k - 1 bits of the
\* state are pushed and the state moves on.
encode(w, e, s) ==
    IF s >= e.s0
      THEN [wtr |-> BitWriterPush(w, s % Pow2(e.k), e.k),
            state |-> e.delta0 + s \div Pow2(e.k)]
      ELSE [wtr |-> BitWriterPush(w, s % Pow2(e.k - 1), e.k - 1),
            state |-> e.delta1 + s \div Pow2(e.k - 1)]

\* Encoder::u
encode_u(weights, w, s, u) ==
    Bind(EncoderEntry(weights, U_STATES, u), LAMBDA e : encode(w, e, s))

\* The symbol of a value in the block b.
SymbolOf(b, v) ==
    (CHOOSE i \in 1..Len(b.base) : b.base[i] <= v /\ v < b.base[i] + Pow2(b.bits[i])) - 1

\* Encoder::l, m and d: the extra bits of the value are pushed, then the
\* symbol is taken.
encode_v(b, weights, w, s, v) ==
    Bind(SymbolOf(b, v), LAMBDA i :
    Bind(BitWriterPush(w, v - b.base[i + 1], b.bits[i + 1]), LAMBDA x :
    Bind(EncoderEntry(weights, b.n, i), LAMBDA e : encode(x, e, s))))

\* The loop of Literals::store from the index i down, four literals a turn
\* with the last first.
RECURSIVE StoreU(_, _, _, _, _)
StoreU(weights, buf, i, w, st) ==
    IF i = 0 THEN [wtr |-> w, state |-> st]
    ELSE Bind(encode_u(weights, w, st[4], buf[i]), LAMBDA e3 :
         Bind(encode_u(weights, e3.wtr, st[3], buf[i - 1]), LAMBDA e2 :
         Bind(encode_u(weights, e2.wtr, st[2], buf[i - 2]), LAMBDA e1 :
         Bind(encode_u(weights, e1.wtr, st[1], buf[i - 3]), LAMBDA e0 :
             StoreU(weights, buf, i - 4, e0.wtr,
                    << e0.state, e1.state, e2.state, e3.state >>)))))

\* Literals::store after pad_u(pad): the payload, and the parameters with
\* the number of literals a multiple of four.
literals_store(data, pad, weights) ==
    Bind(((Len(data) + 3) \div 4) * 4, LAMBDA n_literals :
    Bind(StoreU(weights, data \o << pad, pad, pad, pad >>, n_literals,
                BitWriterNew, << 0, 0, 0, 0 >>), LAMBDA st :
    Bind(BitWriterFinalize(st.wtr), LAMBDA f :
        [bytes |-> f.bytes,
         param |-> [num |-> n_literals, bits |-> f.off, state |-> st.state]])))

\* The loop of Literals::load from i up to n_literals.
RECURSIVE LoadU(_, _, _, _, _, _)
LoadU(weights, r, st, out, i, n_literals) ==
    IF i = n_literals THEN [rdr |-> r, state |-> st, out |-> out]
    ELSE Bind(decode_u(weights, r, st[1]), LAMBDA d0 :
         Bind(decode_u(weights, d0.rdr, st[2]), LAMBDA d1 :
         Bind(decode_u(weights, d1.rdr, st[3]), LAMBDA d2 :
         Bind(decode_u(weights, d2.rdr, st[4]), LAMBDA d3 :
             LoadU(weights, flush(d3.rdr),
                   << d0.state, d1.state, d2.state, d3.state >>,
                   out \o << d0.u, d1.u, d2.u, d3.u >>, i + 4, n_literals)))))

\* The end of a load: the symbols, the states after the last of them, what
\* the reader said at its end and the result, zero the start states.
LoadEnd(out, final, fin) ==
    [loaded |-> out, final |-> final, fin |-> fin,
     result |-> IF fin # "Ok" THEN fin
                ELSE IF \E c \in 1..Len(final) : final[c] # 0 THEN "BadLmdPayload"
                ELSE "Ok"]

\* Literals::load: the literals, the states after the last of them, what
\* the reader said at its end and the result.
literals_load(bytes, weights, param) ==
    Bind(BitReaderNew(bytes, param.bits, <<>>), LAMBDA r :
        IF r.result # "none"
          THEN [loaded |-> <<>>, final |-> <<>>, fin |-> "none", result |-> r.result]
          ELSE Bind(LoadU(weights, r, param.state, <<>>, 0, param.num), LAMBDA l :
                   LoadEnd(l.out, l.state, finalize(l.rdr))))

\* The loop of Lmds::store from the first lmd on, kept for comparison.
RECURSIVE StoreVForward(_, _, _, _)
StoreVForward(weights, lmds, w, st) ==
    IF lmds = <<>> THEN [wtr |-> w, state |-> st]
    ELSE Bind(Head(lmds), LAMBDA lmd :
         Bind(encode_v(DBlock, weights[3], w, st[3], lmd[3]), LAMBDA d :
         Bind(encode_v(MBlock, weights[2], d.wtr, st[2], lmd[2]), LAMBDA m :
         Bind(encode_v(LBlock, weights[1], m.wtr, st[1], lmd[1]), LAMBDA l :
             StoreVForward(weights, Tail(lmds), l.wtr,
                           << l.state, m.state, d.state >>)))))

\* The loop of Lmds::store from the last lmd down: D, M and L of each.
RECURSIVE StoreV(_, _, _, _)
StoreV(weights, lmds, w, st) ==
    IF lmds = <<>> THEN [wtr |-> w, state |-> st]
    ELSE Bind(lmds[Len(lmds)], LAMBDA lmd :
         Bind(encode_v(DBlock, weights[3], w, st[3], lmd[3]), LAMBDA d :
         Bind(encode_v(MBlock, weights[2], d.wtr, st[2], lmd[2]), LAMBDA m :
         Bind(encode_v(LBlock, weights[1], m.wtr, st[1], lmd[1]), LAMBDA l :
             StoreV(weights, SubSeq(lmds, 1, Len(lmds) - 1), l.wtr,
                    << l.state, m.state, d.state >>)))))

\* Lmds::store: a pad of eight bytes, the payload and the parameters.
lmds_store(lmds, weights) ==
    Bind(StoreV(weights, lmds, [BitWriterNew EXCEPT !.dst = @ \o Zeros(WORD)],
                << 0, 0, 0 >>), LAMBDA st :
    Bind(BitWriterFinalize(st.wtr), LAMBDA f :
        [bytes |-> f.bytes,
         param |-> [num |-> Len(lmds), bits |-> f.off, state |-> st.state]]))

\* The loop of Lmds::load over n_lmds: L, M and D of each.
RECURSIVE LoadV(_, _, _, _, _)
LoadV(weights, r, st, out, n_lmds) ==
    IF n_lmds = 0 THEN [rdr |-> r, state |-> st, out |-> out]
    ELSE Bind(decode_v(LBlock, weights[1], r, st[1]), LAMBDA l :
         Bind(decode_v(MBlock, weights[2], l.rdr, st[2]), LAMBDA m :
         Bind(decode_v(DBlock, weights[3], m.rdr, st[3]), LAMBDA d :
             LoadV(weights, flush(d.rdr), << l.state, m.state, d.state >>,
                   Append(out, << l.u, m.u, d.u >>), n_lmds - 1))))

\* L::default, M::default and D::default
VDefault == << LBlock.off, MBlock.off, DBlock.off >>

\* Lmds::load, the states of the parameters taken by new_unchecked.
lmds_load(bytes, weights, param) ==
    Bind(BitReaderNew(bytes, param.bits, <<>>), LAMBDA r :
        IF r.result # "none"
          THEN [loaded |-> <<>>, final |-> <<>>, fin |-> "none", result |-> r.result]
          ELSE Bind(LoadV(weights, r, [c \in 1..3 |-> VDefault[c] + param.state[c]],
                          <<>>, param.num), LAMBDA l :
                   LoadEnd(l.out, [c \in 1..3 |-> l.state[c] - VDefault[c]],
                           finalize(l.rdr))))

\* Sequences over S of length up to n.
SeqsUpTo(S, n) == UNION {[1..k -> S] : k \in 0..n}

\* The literals and the components of the lmds stored.
LiteralValues == 0..(MaxSymbols - 1)

LValues == {0, 5}

MValues == {1, 10}

DValues == {0, 2, 6}

\* Normalized weights: blocks of n_states in all over the symbols syms, all
\* zero for no symbol, every symbol of syms with a weight of one at least.
\* syms is numbered from 1.
WeightBlocks(n_states, syms) ==
    IF syms = {} THEN {[i \in 1..MaxSymbols |-> 0]}
    ELSE {w \in [1..MaxSymbols ->
                    {0, 1, n_states \div 2 - 1, n_states \div 2, n_states - 1, n_states}] :
             /\ SumTo(w, MaxSymbols) = n_states
             /\ \A i \in 1..MaxSymbols : w[i] > 0 <=> i \in syms}

\* The symbols, from 1, of the component c of lmds.
VSymbols(b, lmds, c) == {SymbolOf(b, lmds[k][c]) + 1 : k \in 1..Len(lmds)}

\* The fields the coder steps leave alone.
CoderFrame ==
    /\ UNCHANGED << variant, src, rest, dst, n_eos, frame, src1, out1, mut, bw, br,
                    chosen, hist, feed, walk, big >>
    /\ UNCHANGED encvars
    /\ UNCHANGED decvars

\* Literals pushed to the buffer and Weights::load, Encoder::init and
\* Decoder::init over them; the literal of the padding is one of the data.
LiteralWeights ==
    /\ pc = "init"
    /\ \E data \in SeqsUpTo(LiteralValues, MaxLiterals) :
        \E w \in WeightBlocks(U_STATES, {data[k] + 1 : k \in 1..Len(data)}) :
            \E u \in {data[k] : k \in 1..Len(data)} \cup {v \in {0} : data = <<>>} :
                coder' = [CoderNone EXCEPT !.kind = "literals", !.weights = w,
                                           !.data = data, !.pad = u]
    /\ pc' = "store"
    /\ CoderFrame

\* Lmds pushed to the buffer and Weights::load, Encoder::init and
\* Decoder::init over them.
LmdWeights ==
    /\ pc = "init"
    /\ \E lmds \in SeqsUpTo(LValues \X MValues \X DValues, MaxLmds) :
        \E wl \in WeightBlocks(L_STATES, VSymbols(LBlock, lmds, 1)),
           wm \in WeightBlocks(M_STATES, VSymbols(MBlock, lmds, 2)),
           wd \in WeightBlocks(D_STATES, VSymbols(DBlock, lmds, 3)) :
            coder' = [CoderNone EXCEPT !.kind = "lmds", !.weights = << wl, wm, wd >>,
                                       !.data = lmds]
    /\ pc' = "store"
    /\ CoderFrame

\* Literals::store
LiteralsStore ==
    /\ pc = "store"
    /\ coder.kind = "literals"
    /\ Bind(literals_store(coder.data, coder.pad, coder.weights), LAMBDA s :
        coder' = [coder EXCEPT !.bytes = s.bytes, !.param = s.param])
    /\ pc' = "load"
    /\ CoderFrame

\* Lmds::store
LmdsStore ==
    /\ pc = "store"
    /\ coder.kind = "lmds"
    /\ Bind(lmds_store(coder.data, coder.weights), LAMBDA s :
        coder' = [coder EXCEPT !.bytes = s.bytes, !.param = s.param])
    /\ pc' = "load"
    /\ CoderFrame

\* The states of a block of n_states put in place of a state of the
\* header.
OtherStates(n_states) == {0, 1, n_states - 1}

\* The states of the coder's streams.
CoderStates ==
    IF coder.kind = "literals" THEN << U_STATES, U_STATES, U_STATES, U_STATES >>
    ELSE << L_STATES, M_STATES, D_STATES >>

\* A block header that is not the one store returned: another state, within
\* the states of its table, in place of one of the states.
HeaderState ==
    /\ pc = "load"
    /\ ~coder.tampered
    /\ \E c \in 1..Len(coder.param.state) :
        \E s \in OtherStates(CoderStates[c]) \ {coder.param.state[c]} :
            coder' = [coder EXCEPT !.param.state[c] = s, !.tampered = TRUE]
    /\ UNCHANGED pc
    /\ CoderFrame

\* A block header that is not the one store returned: fewer symbols.
HeaderNum ==
    /\ pc = "load"
    /\ ~coder.tampered
    /\ coder.param.num > 0
    /\ coder' = [coder EXCEPT
                    !.param.num = IF coder.kind = "literals" THEN @ - 4 ELSE @ - 1,
                    !.tampered = TRUE]
    /\ UNCHANGED pc
    /\ CoderFrame

\* Literals::load
LiteralsLoad ==
    /\ pc = "load"
    /\ coder.kind = "literals"
    /\ Bind(literals_load(coder.bytes, coder.weights, coder.param), LAMBDA l :
        coder' = [coder EXCEPT !.loaded = l.loaded, !.final = l.final,
                               !.fin = l.fin, !.result = l.result])
    /\ pc' = "done"
    /\ CoderFrame

\* Lmds::load
LmdsLoad ==
    /\ pc = "load"
    /\ coder.kind = "lmds"
    /\ Bind(lmds_load(coder.bytes, coder.weights, coder.param), LAMBDA l :
        coder' = [coder EXCEPT !.loaded = l.loaded, !.final = l.final,
                               !.fin = l.fin, !.result = l.result])
    /\ pc' = "done"
    /\ CoderFrame

InitCoder ==
    /\ variant = "bytes"
    /\ src = <<>>
    /\ Constructed

NextCoder ==
    \/ LiteralWeights
    \/ LmdWeights
    \/ LiteralsStore
    \/ LmdsStore
    \/ HeaderState
    \/ HeaderNum
    \/ LiteralsLoad
    \/ LmdsLoad

SpecCoder == InitCoder /\ [][NextCoder]_vars

\* ------------------------------------------------------------------------
\* Properties.
\* ------------------------------------------------------------------------

\* The first four bytes of the frame.
FirstMagic == SubSeq(dst, 1, 4)

\* The frame is complete: the end of stream magic is written.
Framed == pc \in {"decode", "done"}

\* The typed ways a decode ends in failure.
DecodeErrors ==
    {"BadBlock", "BadOpcode", "BadPayload", "BadPayloadCount", "BadLmdPayload",
     "PayloadUnderflow", "PayloadOverflow"}

ModeByLength ==
    Framed =>
        /\ backend.type = (IF Len(src) <= RAW_CUTOFF THEN "none"
                           ELSE IF Len(src) <= VN_CUTOFF THEN "vn" ELSE "fse")
        /\ Len(src) <= RAW_CUTOFF => FirstMagic = MagicRaw
        /\ (Len(src) > RAW_CUTOFF /\ Len(src) <= VN_CUTOFF)
               => FirstMagic \in {MagicVxn, MagicRaw}
        /\ Len(src) > VN_CUTOFF => FirstMagic = MagicVx2
        /\ src = Zeros(RAW_CUTOFF + 1) => FirstMagic = MagicVxn
        /\ src = Zeros(VN_CUTOFF) => FirstMagic = MagicVxn

\* VN_CUTOFF + 1 zeros framed as an FSE block by the ring encoder.
ModeByLengthWitness ==
    /\ Framed
    /\ variant = "ring"
    /\ src = Zeros(VN_CUTOFF + 1)
    /\ FirstMagic = MagicVx2

\* C4: a VN block is replaced by a raw block exactly when the input with a
\* raw header is no longer than what the VN backend wrote for the block;
\* otherwise the VN block stays.  An input beyond VN_CUTOFF is never
\* reworked as a raw block.
RawFallback ==
    Framed =>
        /\ backend.type = "vn" =>
              /\ FirstMagic = MagicRaw <=> Len(src) + RAW_HEADER_SIZE <= dst_len
              /\ FirstMagic = MagicRaw =>
                    dst = raw_compress(<<>>, src) \o MagicEos
              /\ FirstMagic # MagicRaw =>
                    (FirstMagic = MagicVxn /\ Len(dst) = dst_len + 4)
        /\ backend.type = "fse" => FirstMagic # MagicRaw

\* A VN block exactly as long as the raw block, reworked.
RawFallbackWitness ==
    /\ Framed
    /\ backend.type = "vn"
    /\ Len(src) + RAW_HEADER_SIZE = dst_len
    /\ FirstMagic = MagicRaw

\* C5: an input of at most RAW_CUTOFF bytes, the empty input included, is
\* framed as the raw magic, the length, the bytes themselves and the end of
\* stream magic: Len(src) + 12 bytes.
RawFrame ==
    (Framed /\ Len(src) <= RAW_CUTOFF) =>
        /\ dst = MagicRaw \o U32LE(Len(src)) \o src \o MagicEos
        /\ Len(dst) = Len(src) + 12

\* The empty input framed.
RawFrameWitness ==
    /\ Framed
    /\ src = <<>>
    /\ Len(dst) = 12

Deterministic ==
    (pc = "done" /\ frame > 1 /\ src = src1) => dst = out1

BitLaw ==
    /\ br.same
    /\ (pc = "done" /\ br.left = 0 /\ br.over = 0) => br.result = "Ok"

\* More bits than the accumulator holds, a pair of no bits among them, all
\* pulled back.
BitLawWitness ==
    /\ pc = "done"
    /\ br.left = 0
    /\ br.over = 0
    /\ br.pulled > ACCUM_MAX
    /\ \E k \in 1..Len(bw.ws) : bw.ws[k][2] = 0
    /\ br.result = "Ok"

\* C10: finalize returns Ok exactly when the bits pulled are the bits of the
\* payload, and PayloadUnderflow otherwise.
FinalizeExact ==
    (pc = "done" /\ br.result # "none") =>
        /\ br.result = "Ok" <=> br.pulled = PayloadBits(br)
        /\ br.result # "Ok" => br.result = "PayloadUnderflow"

\* C16: a call of Match::select follows the rows in order: (a) an empty
\* incoming match emits nothing and leaves pending as it was; (b) else an
\* incoming match of GOOD_MATCH_LEN or more is emitted and pending becomes
\* empty; (c) else with pending empty nothing is emitted and pending
\* becomes incoming; (d) else with pending ending at or before incoming.idx
\* pending is emitted and pending becomes incoming.  No call emits a match
\* of length 0.
SelectRows ==
    chosen.calls > 0 =>
        /\ IF chosen.incoming.match_len = 0
             THEN ~chosen.some /\ chosen.pending = chosen.before
           ELSE IF chosen.incoming.match_len >= GOOD_MATCH_LEN
             THEN chosen.some /\ chosen.m = chosen.incoming /\ chosen.pending.match_len = 0
           ELSE IF chosen.before.match_len = 0
             THEN ~chosen.some /\ chosen.pending = chosen.incoming
           ELSE IF chosen.before.idx + chosen.before.match_len <= chosen.incoming.idx
             THEN chosen.some /\ chosen.m = chosen.before /\ chosen.pending = chosen.incoming
           ELSE TRUE
        /\ chosen.some => chosen.m.match_len # 0

\* Row (d) at its edge: a pending match that ends exactly at incoming.idx
\* was emitted and replaced by the incoming match.
SelectRowsWitness ==
    /\ chosen.calls > 0
    /\ chosen.incoming.match_len \in 1..(GOOD_MATCH_LEN - 1)
    /\ chosen.before.match_len # 0
    /\ chosen.before.idx + chosen.before.match_len = chosen.incoming.idx
    /\ chosen.some
    /\ chosen.m = chosen.before
    /\ chosen.pending = chosen.incoming

\* The overlap row of Match::select: incoming not empty and shorter than
\* GOOD_MATCH_LEN, pending not empty and ending after incoming.idx.
Overlap ==
    /\ chosen.calls > 0
    /\ chosen.incoming.match_len \in 1..(GOOD_MATCH_LEN - 1)
    /\ chosen.before.match_len # 0
    /\ chosen.before.idx + chosen.before.match_len > chosen.incoming.idx

\* The longer of the two matches of the call, pending on equal length.
Longer ==
    IF chosen.incoming.match_len > chosen.before.match_len
      THEN chosen.incoming ELSE chosen.before

\* C17 as stated: in the overlap row the longer of the two matches is kept
\* as pending and nothing is emitted by the call.
OverlapKeeps ==
    Overlap => ~chosen.some /\ chosen.pending = Longer

\* C17, amended: in the overlap row the longer of the two matches (pending
\* on equal length) is emitted by the call, the shorter is dropped, and
\* pending becomes empty.
OverlapEmits ==
    Overlap => chosen.some /\ chosen.m = Longer /\ chosen.pending.match_len = 0

\* An overlap of two matches of equal length: the pending match was
\* emitted.
OverlapEmitsWitness ==
    /\ Overlap
    /\ chosen.incoming.match_len = chosen.before.match_len
    /\ chosen.incoming # chosen.before
    /\ chosen.some
    /\ chosen.m = chosen.before
    /\ chosen.pending.match_len = 0

\* The entries of the queue q have strictly decreasing idx from slot 0 to
\* slot 3.
Decreasing(q) == \A k \in 1..(HASH_WIDTH - 1) : q[k].idx > q[k + 1].idx

\* C13 as stated: after pushes of strictly increasing idx on a reset
\* table, the four entries of every bucket pushed to have strictly
\* decreasing idx from slot 0 to slot 3.
HistoryDecreasing ==
    \A h \in DOMAIN table : Decreasing(table[h])

\* C13, amended: after pushes of strictly increasing idx on a reset table,
\* the four entries of every bucket have idx that does not increase from
\* slot 0 to slot 3, and two neighbours of equal idx are both the entry of
\* the reset, Item(0, Q0 - Q1); the entries pushed are strictly decreasing.
HistoryOrdered ==
    \A h \in DOMAIN table : \A k \in 1..(HASH_WIDTH - 1) :
        /\ table[h][k].idx >= table[h][k + 1].idx
        /\ table[h][k].idx = table[h][k + 1].idx =>
            /\ table[h][k] = ResetHistory[1]
            /\ table[h][k + 1] = ResetHistory[1]

\* A bucket pushed to four times or more, its entries strictly decreasing,
\* and a bucket pushed to once, its three old entries those of the reset.
HistoryOrderedWitness ==
    /\ \E h \in DOMAIN table :
        /\ Decreasing(table[h])
        /\ table[h][HASH_WIDTH].idx >= 0
    /\ \E h \in DOMAIN table :
        /\ table[h][1].idx >= 0
        /\ \A k \in 2..HASH_WIDTH : table[h][k] = ResetHistory[1]

\* C20: clamp(idx) sets the idx of every entry that is more than Q1 behind
\* idx to idx - Q1 and leaves the idx of every other entry as it was;
\* clamp_rebias(idx, delta) then takes delta from every idx; no val
\* changes.
ClampLaw ==
    hist.op # "none" =>
        \A h \in DOMAIN table : \A k \in 1..HASH_WIDTH :
            /\ table[h][k].val = hist.before[h][k].val
            /\ table[h][k].idx =
                 wrapping_sub(IF hist.ages[h][k] > Len(NearAges)
                                THEN wrapping_sub(hist.idx, Q1)
                                ELSE hist.before[h][k].idx,
                              hist.delta)
            /\ hist.op = "clamp" => hist.delta = 0

\* A clamp_rebias with a delta over a queue with an entry exactly Q1
\* behind, which it left in place, and an entry Q1 + 1 behind, which it
\* clamped.
ClampLawWitness ==
    /\ hist.op = "clamp_rebias"
    /\ hist.delta = 1
    /\ Ages[hist.ages[1][2]] = Q1
    /\ Ages[hist.ages[1][3]] = Q1 + 1
    /\ table[1][2].idx = wrapping_sub(hist.before[1][2].idx, 1)
    /\ table[1][3].idx = wrapping_sub(wrapping_sub(hist.idx, Q1), 1)
    /\ table[1][3].idx # wrapping_sub(hist.before[1][3].idx, 1)

\* The head and the tail of the input buffer of the frontend of the run.
BufferHead == IF variant = "bytes" THEN 0 ELSE head

BufferTail == IF variant = "bytes" THEN Len(block) ELSE tail

Extension == found.idx - found.m.idx

IdxLe(a, b) == wrapping_sub(b, a) >= 0

validate_global ==
    /\ IdxLe(head, literal_idx)
    /\ IdxLe(literal_idx, idx)
    /\ IdxLe(idx, tail)
    /\ IdxLe(tail, mark)
    /\ IdxLe(mark, wrapping_sub(head, 0 - RING_SIZE))
    /\ mark % RING_BLK_SIZE = 0

\* The frontend stands after the step named step.
After(step) == pc # "loop" /\ feed.step = step

Goldilocks ==
    (After("match_block") /\ feed.full) =>
        /\ head - feed.head0 > 0
        /\ (head - feed.head0) % RING_BLK_SIZE = 0
        /\ head + RING_SIZE \div 2 <= idx
        /\ idx < head + RING_SIZE \div 2 + RING_BLK_SIZE

\* A full ring after which the head has advanced by more than one block:
\* the last match carried idx over the target of match_long.
GoldilocksWitness ==
    /\ After("match_block")
    /\ feed.full
    /\ head - feed.head0 > RING_BLK_SIZE
    /\ idx % RING_BLK_SIZE # 0

\* A load has returned.
Loaded == coder.result # "none"

\* A decoder state is not the start state after the symbols declared, and
\* the reader found the payload in order at its end.
StateLeft == coder.fin = "Ok" /\ \E c \in 1..Len(coder.final) : coder.final[c] # 0

\* C11 as stated: after decoding the declared number of symbols a load
\* succeeds only if every decoder state is zero; a load whose final L, M or
\* D state is nonzero fails with BadLmdPayload and a load whose final
\* literal state is nonzero fails with BadLiteralState.
Termination ==
    Loaded =>
        /\ coder.result = "Ok" => \A c \in 1..Len(coder.final) : coder.final[c] = 0
        /\ (coder.kind = "lmds" /\ StateLeft) => coder.result = "BadLmdPayload"
        /\ (coder.kind = "literals" /\ StateLeft) => coder.result = "BadLiteralState"

\* C12: data stored by the encoder and loaded by the decoder built from
\* the same weights, with the parameters store returned, come back in the
\* original order, the literals followed by the padding to four, and load
\* reports no error.
StoreLoad ==
    (Loaded /\ ~coder.tampered) =>
        /\ coder.result = "Ok"
        /\ coder.kind = "lmds" => coder.loaded = coder.data
        /\ coder.kind = "literals" =>
              /\ Len(coder.loaded) = coder.param.num
              /\ SubSeq(coder.loaded, 1, Len(coder.data)) = coder.data

\* Two lmds that differ in every component stored and loaded.
StoreLoadWitness ==
    /\ Loaded
    /\ ~coder.tampered
    /\ coder.kind = "lmds"
    /\ Len(coder.data) = MaxLmds
    /\ \A c \in 1..3 : coder.data[1][c] # coder.data[2][c]
    /\ coder.loaded = coder.data
    /\ Len(coder.bytes) > 2 * WORD

\* FrontendRing::init has returned and nothing of the frame is read yet.
AfterInit == variant # "bytes" /\ pc \in {"fill", "flush"} /\ tail = 0 /\ rest = src

\* C27 as stated: after FrontendRing::init is_init holds whatever the frame
\* before left behind: commit is None, pending is empty, head, literal_idx,
\* idx and tail are Q0, mark is Q0 + RING_BLK_SIZE and n_raw_bytes is 0.
FrameReset ==
    AfterInit =>
        /\ commit = "None"
        /\ pending = MatchDefault
        /\ head = 0
        /\ literal_idx = 0
        /\ idx = 0
        /\ tail = 0
        /\ mark = RING_BLK_SIZE
        /\ n_raw_bytes = 0

\* ---------------------------------------------------------------------
\* fse/decoder.rs: a decoder table built from the weights of a header,
\* normalized or not, walked one decode at a time over every input.

\* The literal table: U_STATES entries of its own.
UBlock == [n |-> U_STATES, off |-> 0, bits |-> <<0, 0, 0>>, base |-> <<0, 0, 0>>]

\* The block of a name.
WalkBlock(name) ==
    CASE name = "U" -> UBlock
      [] name = "L" -> LBlock
      [] name = "M" -> MBlock
      [] OTHER -> DBlock

\* The weights a header may carry for a table of n_states: any weights
\* that total n_states at most.
HeaderWeights(n_states) ==
    {w \in [1..MaxSymbols -> {0, 1, 3, n_states \div 2, n_states}] :
        SumTo(w, MaxSymbols) <= n_states}

\* The fields the walk leaves alone.
WalkFrame ==
    /\ UNCHANGED << variant, src, rest, dst, n_eos, frame, src1, out1, mut, bw, br,
                    chosen, hist, feed, coder, big >>
    /\ UNCHANGED encvars
    /\ UNCHANGED decvars

\* Decoder::init builds the table of the block from the weights, and the
\* state of the header, less than the states of the block, starts the
\* decoder (create_state_struct, try_from).
TableInit ==
    /\ pc = "init"
    /\ \E name \in {"U", "L", "M", "D"} :
         \E w \in HeaderWeights(WalkBlock(name).n) :
           \E s \in 0..(WalkBlock(name).n - 1) :
             walk' = [WalkNone EXCEPT !.block = name, !.weights = w,
                                      !.state = WalkBlock(name).off + s,
                                      !.prev = WalkBlock(name).off + s]
    /\ pc' = "walk"
    /\ WalkFrame

\* The walk after the entry e of the state took the k bits v.
Walked(e, v, v_bits) ==
    [walk EXCEPT !.state = v + e.delta, !.prev = walk.state, !.k = e.k,
                 !.v_bits = v_bits, !.delta = e.delta, !.latch = e.latch,
                 !.via = walk.via \/ ~e.latch,
                 !.stayed = IF e.latch THEN MinOf({walk.stayed + 1, 2}) ELSE 0]

\* UEntry::decode and VEntry::decode: the entry of the state pulls its k
\* bits, any bits the payload may hold, and the state moves by its delta.
TableDecode ==
    /\ pc = "walk"
    /\ Bind(WalkBlock(walk.block), LAMBDA b :
       Bind(TableEntry(walk.weights, b.n, b.off, walk.state - b.off), LAMBDA e :
         \E v \in 0..(Pow2(e.k) - 1) :
           walk' = Walked(e, v, IF e.latch THEN 0 ELSE b.bits[e.symbol + 1])))
    /\ pc' = pc
    /\ WalkFrame

InitTable ==
    /\ variant = "bytes"
    /\ src = <<>>
    /\ Constructed

NextTable == TableInit \/ TableDecode

SpecTable == InitTable /\ [][NextTable]_vars

\* C29: whatever the weights of a header, if they total the states of the
\* block at most, and whatever the bits of the payload, the state of the
\* decoder stays in [offset, offset + n_states), the range of its block of
\* the table, and the delta of the entry it went through fits in an i16.
StateInRange ==
    pc = "walk" =>
        /\ WalkBlock(walk.block).off <= walk.state
        /\ walk.state < WalkBlock(walk.block).off + WalkBlock(walk.block).n
        /\ -32768 <= walk.delta /\ walk.delta <= 32767

\* The D state, in the last block of the V table, sent to the last state of
\* the table by the widest input of an entry that takes bits.
StateInRangeWitness ==
    /\ pc = "walk"
    /\ walk.block = "D"
    /\ walk.k > 0
    /\ ~walk.latch
    /\ walk.state = L_STATES + M_STATES + D_STATES - 1
    /\ walk.delta < walk.state

\* C24 as stated: an entry no weight covers takes no bit, of the state or
\* of the value, and leaves the state where it is, a state that is not the
\* first of the block, so that the check of the final states rejects the
\* block.
LatchRejects ==
    pc = "walk" /\ walk.latch =>
        /\ walk.k = 0 /\ walk.v_bits = 0
        /\ walk.state = walk.prev
        /\ walk.state # WalkBlock(walk.block).off

\* C24, amended: an entry no weight covers takes no bit and leaves the
\* state where it is; the state is not the first of the block, the state
\* the check of the final states asks for, unless the weights are all zero.
Latching ==
    pc = "walk" /\ walk.latch =>
        /\ walk.k = 0 /\ walk.v_bits = 0
        /\ walk.state = walk.prev
        /\ (walk.state = WalkBlock(walk.block).off
              => SumTo(walk.weights, MaxSymbols) = 0)

\* A decoder that an entry with bits sent to a latch and that stayed there
\* for two decodes, away from the first state of the block.
LatchingWitness ==
    /\ pc = "walk"
    /\ walk.latch
    /\ walk.via
    /\ walk.stayed = 2
    /\ SumTo(walk.weights, MaxSymbols) > 0
    /\ walk.state # WalkBlock(walk.block).off

\* ---------------------------------------------------------------------
\* Literals::load and Lmds::load on the accumulator of the reader: the bits
\* each decode pulls and the flushes of the loop, on a usize of 32 and of
\* 64 bits.

\* Turns of the load loop followed.
MaxRounds == 2

\* The widest symbols of the L, M and D alphabets: the last of them carry
\* MAX_L_VALUE = 60 + 255, MAX_M_VALUE = 312 + 2047 and MAX_D_VALUE =
\* 229372 + 32767.
L_WIDE_BITS == <<3, 5, 8>>

L_WIDE_BASE == <<20, 28, 60>>

M_WIDE_BITS == <<5, 8, 11>>

M_WIDE_BASE == <<24, 56, 312>>

D_WIDE_BITS == <<14, 15, 15>>

D_WIDE_BASE == <<131068, 196604, 229372>>

\* The blocks a load decodes through, in the order of the loop.
LoadBlocks(kind) ==
    IF kind = "literals" THEN <<UBlock, UBlock, UBlock, UBlock>>
    ELSE << [LBlock EXCEPT !.bits = L_WIDE_BITS, !.base = L_WIDE_BASE],
            [MBlock EXCEPT !.bits = M_WIDE_BITS, !.base = M_WIDE_BASE],
            [DBlock EXCEPT !.bits = D_WIDE_BITS, !.base = D_WIDE_BASE] >>

\* A loop that flushes at the end of a turn only, whatever the target.
FlushAfterTurn(kind, target, at) == at = Len(LoadBlocks(kind))

\* Whether the loop flushes after the decode of the component at: at the
\* end of a turn, and on a usize of 32 bits after two literals and after
\* each of L and M too.
FlushAfter(kind, target, at) ==
    \/ at = Len(LoadBlocks(kind))
    \/ target = 32 /\ (kind = "lmds" \/ at = 2)

\* Weights of a header for a table of n_states, normalized or not.
LoadWeights(n_states) ==
    << <<0, 0, 0>>, <<1, 0, 0>>, <<0, 0, 1>>, <<1, 1, n_states - 2>>,
       <<n_states \div 2, 0, 3>> >>

\* BitReader::new in load: the accumulator holds the bits of a usize less
\* off, and the states are those of the header.
AccumNew ==
    /\ pc = "init"
    /\ \E kind \in {"literals", "lmds"}, target \in {32, 64}, off \in {0, 7},
          i \in 1..5, top \in BOOLEAN, num \in 0..MaxRounds :
         Bind(LoadBlocks(kind), LAMBDA bs :
           /\ walk' = [WalkNone EXCEPT
                 !.kind = kind, !.target = target,
                 !.weights = [c \in 1..Len(bs) |-> LoadWeights(bs[c].n)[i]],
                 !.states = [c \in 1..Len(bs) |->
                     bs[c].off + (IF top THEN bs[c].n - 1 ELSE 0)],
                 !.accum_bits = target - off, !.avail = target - off,
                 !.at = 1, !.num = num]
           /\ pc' = IF num = 0 THEN "end" ELSE "pull")
    /\ WalkFrame

\* Decoder::u, l, m or d on the component at: the entry of its state pulls
\* k bits and then v_bits bits.
AccumDecode ==
    /\ pc = "pull"
    /\ Bind(LoadBlocks(walk.kind)[walk.at], LAMBDA b :
       Bind(TableEntry(walk.weights[walk.at], b.n, b.off,
                       walk.states[walk.at] - b.off), LAMBDA e :
       Bind(IF e.latch THEN 0 ELSE b.bits[e.symbol + 1], LAMBDA v_bits :
         /\ \E v \in {0, Pow2(e.k) - 1} :
              walk' = [walk EXCEPT
                  !.states[walk.at] = v + e.delta,
                  !.k = e.k, !.v_bits = v_bits, !.latch = e.latch,
                  !.accum_bits = walk.accum_bits - e.k - v_bits,
                  !.since = walk.since + e.k + v_bits,
                  !.at = IF FlushAfter(walk.kind, walk.target, walk.at)
                           THEN walk.at ELSE walk.at + 1]
         /\ pc' = IF FlushAfter(walk.kind, walk.target, walk.at)
                    THEN "flush" ELSE "pull")))
    /\ WalkFrame

\* BitReader::flush on the accumulator: whole bytes up to the bits of a
\* usize.
accum_flush(w) ==
    Bind(w.accum_bits + 8 * ((w.target - w.accum_bits) \div 8), LAMBDA bits :
        [w EXCEPT !.accum_bits = bits, !.since = 0, !.avail = bits])

\* The flush of the loop after the component at, and the end of the turn
\* after the last component.
AccumFlush ==
    /\ pc = "flush"
    /\ Bind(walk.at = Len(LoadBlocks(walk.kind)), LAMBDA last :
       Bind(IF last THEN walk.rounds + 1 ELSE walk.rounds, LAMBDA rounds :
         /\ walk' = [accum_flush(walk) EXCEPT
                         !.at = IF last THEN 1 ELSE walk.at + 1,
                         !.rounds = rounds]
         /\ pc' = IF last /\ rounds = walk.num THEN "end" ELSE "pull"))
    /\ WalkFrame

\* BitReader::finalize at the end of load: one more flush.
AccumFinalize ==
    /\ pc = "end"
    /\ walk' = accum_flush(walk)
    /\ pc' = "done"
    /\ WalkFrame

InitAccum ==
    /\ variant = "bytes"
    /\ src = <<>>
    /\ Constructed

NextAccum == AccumNew \/ AccumDecode \/ AccumFlush \/ AccumFinalize

SpecAccum == InitAccum /\ [][NextAccum]_vars

\* C25: in Literals::load and Lmds::load, whatever the weights of the
\* tables, the accumulator holds between 0 and ACCUM_MAX bits at every
\* flush and after every pull, the reader holds ACCUM_MAX - 7 bits at
\* least when it is made and after a flush, and the bits pulled since are
\* no more than the bits it held.
AccumBound ==
    pc \in {"pull", "flush", "end", "done"} =>
        /\ 0 <= walk.accum_bits
        /\ walk.accum_bits <= walk.target
        /\ walk.avail >= walk.target - 7
        /\ walk.since <= walk.avail

\* An L, M, D triple of 54 bits between two flushes of a usize of 64 bits.
AccumBoundWitness ==
    /\ pc = "flush"
    /\ walk.kind = "lmds"
    /\ walk.target = 64
    /\ walk.since = 14 + 17 + 23
    /\ walk.rounds = 1

\* A D component of 23 bits between two flushes of a usize of 32 bits that
\* held 25 bits.
AccumBoundNarrow ==
    /\ pc = "flush"
    /\ walk.kind = "lmds"
    /\ walk.target = 32
    /\ walk.avail < 32
    /\ walk.since = 23

\* The bytes handed to the backend are the input up to the literal index;
\* a raw block, which hands nothing to a backend, takes the input whole.
Covered ==
    /\ commit # "None" \/ pc # "done" => feed.pushed = literal_idx
    /\ pc = "done" =>
          /\ literal_idx = tail
          /\ tail = feed.total
          /\ commit # "None" => feed.pushed = feed.total

MaxFinds == 3

SLACK == 268435456

BLOCK_GUIDE == 2147483647

\* The lengths of the inputs, less BLOCK_GUIDE: inputs around the cutoffs,
\* an input of Q1 + 8 bytes, inputs of BLOCK_GUIDE and of BLOCK_GUIDE + 4
\* bytes, and inputs of two and of three blocks.
BigOver ==
    {RAW_CUTOFF + 1 - BLOCK_GUIDE, VN_CUTOFF - BLOCK_GUIDE,
     VN_CUTOFF + 1 - BLOCK_GUIDE, Q1 + 8 - BLOCK_GUIDE, 0, 4, SLACK, BLOCK_GUIDE}

\* The fields of the frontend as they are.
Bytes ==
    [pending |-> pending, literal_idx |-> literal_idx, idx |-> idx,
     cur |-> cur, queue |-> TableGet(table, 1), big |-> big, pc |-> pc]

\* The fields y of the frontend written back.
BigStepped(y) ==
    /\ pending' = y.pending
    /\ literal_idx' = y.literal_idx
    /\ idx' = y.idx
    /\ cur' = y.cur
    /\ table' = [h \in {1} |-> y.queue]
    /\ big' = y.big
    /\ pc' = y.pc
    /\ UNCHANGED << frame, src1, out1, mut, bw, br, chosen, hist, feed, coder, walk >>
    /\ UNCHANGED << variant, src, rest, ring, commit, head, tail, mark, clamp,
                    n_raw_bytes, block, dst_len, backend, handed, found, dst,
                    n_eos >>
    /\ UNCHANGED decvars

\* Ward::push for the items of idx from up to to - 1: an idx that is not
\* the one after the last is a push out of order.
ward_push(b, from, to) ==
    IF from >= to THEN b
    ELSE [b EXCEPT !.ward = to,
                   !.order = IF b.order # "ok" THEN b.order
                             ELSE IF from = b.ward THEN "ok"
                             ELSE IF from > b.ward THEN "skip"
                             ELSE "twice"]

\* An assert! of the frontend: the fields y when it holds, a panic named
\* after the function when it fails.
asserted(ok, name, y) ==
    IF ok THEN y ELSE [Bytes EXCEPT !.pc = "panic", !.big.panic = name]

\* FrontendBytes::init and the way of flush to match_blocks, for an input
\* longer than RAW_CUTOFF.
BigInit ==
    /\ pc = "init"
    /\ \E over \in BigOver :
        BigStepped([Bytes EXCEPT
            !.pending = MatchDefault, !.literal_idx = 0, !.idx = 0,
            !.queue = ResetHistory, !.pc = "any",
            !.big = [BigNone EXCEPT
                        !.over = over,
                        !.ty = IF over > VN_CUTOFF - BLOCK_GUIDE
                                 THEN "fse" ELSE "vn"]])

\* A target that leaves no room for the last four bytes of the block.
any_index_end(short, len) == IF short THEN len ELSE len - SLACK

\* The index the loop of match_any is to reach in a block of len bytes.
any_index(short, len) == IF short THEN len - 3 ELSE len - SLACK - 3

\* FrontendBytes::match_any up to its loop: the block and the index the
\* loop is to reach.
MatchAnyEnter ==
    /\ pc = "any"
    /\ Bind(big.over <= 3, LAMBDA short :
       Bind(IF short THEN BLOCK_GUIDE + big.over ELSE BLOCK_GUIDE, LAMBDA len :
       Bind(any_index(short, len), LAMBDA target :
           BigStepped(asserted(
               /\ big.over >= 4 - BLOCK_GUIDE
               /\ idx < target
               /\ target <= BLOCK_GUIDE
               /\ target + 3 <= len,
               "match_any",
               [Bytes EXCEPT !.cur = idx, !.idx = target, !.pc = "loop",
                             !.big.block = len, !.big.short = short])))))

\* Turns of the hot loop that select nothing, the items pushed to other
\* buckets: the local index moves up to n, and the loop ends when that is
\* self.index.
AnySkip ==
    /\ pc = "loop"
    /\ \E n \in {k \in {cur + 1, Q1 + 2, idx - 1, idx} : cur < k /\ k <= idx} :
        /\ n \in {Q1 + 2, idx - 1, idx} \/ big.turns < MaxFinds
        /\ BigStepped([Bytes EXCEPT
               !.cur = n,
               !.pc = IF n = idx THEN "end" ELSE "loop",
               !.big = [ward_push(big, cur, n) EXCEPT
                           !.turns = IF n \in {Q1 + 2, idx - 1, idx}
                                       THEN big.turns ELSE big.turns + 1]])

\* Whether find_match looks at the entry k of the queue q for the item at
\* i: it does when the entries before are within MAX_MATCH_DISTANCE.
examined(q, i, ty, k) ==
    \A j \in 1..(k - 1) :
        Bind(wrapping_sub(i, q[j].idx), LAMBDA d :
            0 <= d /\ d <= MAX_MATCH_DISTANCE(ty))

\* The distance (item.idx - entry.idx) as u32 is above Q2 for an entry
\* that find_match looks at.
distance_beyond(q, i, ty) ==
    \E k \in 1..HASH_WIDTH :
        /\ examined(q, i, ty, k)
        /\ Bind(wrapping_sub(i, q[k].idx), LAMBDA d :
              d < 0 /\ d # 0 - I32_MAX - 1)

\* The matches find_match can return for the item at the local index from
\* the queue q: none, or the entry k matched over inc bytes on and back
\* bytes back.
BigIncoming(q) ==
    {MatchDefault} \cup
    {Match(cur - back, q[k].idx - back, inc + back) :
        k \in {j \in 1..HASH_WIDTH :
                  /\ examined(q, cur, big.ty, j + 1)
                  /\ q[j].idx < cur},
        inc \in {j \in {MATCH_UNIT(big.ty), GOOD_MATCH_LEN, idx - cur,
                        big.block - cur} :
                    MATCH_UNIT(big.ty) <= j /\ j <= big.block - cur},
        back \in {0, 1, cur - literal_idx}}

\* FrontendBytes::sync_history from from: the items up to the literal
\* index pushed, the last of them to the bucket when it is hit.
big_sync(y, from, hit) ==
    [y EXCEPT !.big = ward_push(y.big, from, y.literal_idx),
              !.queue = IF hit /\ from < y.literal_idx
                          THEN HistoryPush(y.queue,
                                           Item(<<0, 0, 0, 0>>, y.literal_idx - 1))
                          ELSE y.queue]

\* A turn of the hot loop of match_any for an item of the bucket.
AnyFind ==
    /\ pc = "loop"
    /\ big.turns < MaxFinds
    /\ \E incoming \in BigIncoming(TableGet(table, 1)), hit \in BOOLEAN :
        /\ incoming.match_len = 0 \/
              /\ incoming.idx >= literal_idx
              /\ incoming.match_idx >= 0
        /\ Bind([Bytes EXCEPT
                    !.queue = HistoryPush(TableGet(table, 1), Item(<<0, 0, 0, 0>>, cur)),
                    !.big = [ward_push(big, cur, cur + 1) EXCEPT
                                !.turns = big.turns + 1,
                                !.beyond = big.beyond
                                    \/ distance_beyond(TableGet(table, 1), cur, big.ty)]],
                LAMBDA y :
           Bind(select(pending, incoming), LAMBDA sel :
             IF sel.some
               THEN Bind([y EXCEPT !.pending = sel.pending,
                                   !.literal_idx = sel.m.idx + sel.m.match_len],
                         LAMBDA z :
                      IF z.literal_idx >= idx
                        THEN hit /\ BigStepped([z EXCEPT !.pc = "end"])
                        ELSE Bind(IF z.literal_idx > cur + 1
                                    THEN z.literal_idx ELSE cur + 1, LAMBDA nxt :
                               BigStepped([big_sync(z, cur + 1, hit) EXCEPT
                                              !.cur = nxt,
                                              !.pc = IF nxt >= idx THEN "end"
                                                     ELSE "loop"])))
               ELSE hit /\ BigStepped([y EXCEPT
                                   !.pending = sel.pending, !.cur = cur + 1,
                                   !.pc = IF cur + 1 = idx THEN "end"
                                          ELSE "loop"])))

\* Match::rebias
rebias(m, delta) ==
    [m EXCEPT !.idx = wrapping_sub(m.idx, delta),
              !.match_idx = wrapping_sub(m.match_idx, delta)]

\* A delta that leaves one byte more than MAX_MATCH_DISTANCE behind.
reposition_delta_more(index, ty) == index - MAX_MATCH_DISTANCE(ty) - 1

\* The delta of reposition for the synced index.
reposition_delta(index, ty) == index - MAX_MATCH_DISTANCE(ty)

\* FrontendBytes::reposition after a block that is not the last.
Reposition ==
    /\ pc = "end"
    /\ ~big.short
    /\ \E hit \in BOOLEAN :
       Bind(big_sync(Bytes, idx, hit), LAMBDA y :
       Bind(IF idx < literal_idx THEN literal_idx ELSE idx, LAMBDA index :
       Bind(reposition_delta(index, big.ty), LAMBDA delta :
       Bind(literal_idx < delta, LAMBDA overflow :
           /\ hit \/ idx < literal_idx
           /\ BigStepped(asserted(
               /\ literal_idx <= BLOCK_GUIDE
               /\ literal_idx - BLOCK_GUIDE + 3 <= big.over
               /\ MAX_MATCH_DISTANCE(big.ty) <= index,
               "reposition",
               [y EXCEPT
                   !.pending = rebias(IF overflow
                                        THEN [pending EXCEPT !.match_len = 0]
                                        ELSE pending, delta),
                   !.literal_idx = (IF overflow THEN delta ELSE literal_idx) - delta,
                   !.idx = index - delta,
                   !.queue = history_clamp_rebias(y.queue, index, delta),
                   !.pc = "any",
                   !.big = [y.big EXCEPT
                               !.ward = IF y.big.ward = index
                                          THEN y.big.ward - delta ELSE index - delta,
                               !.order = IF y.big.order = "ok" /\ y.big.ward # index
                                           THEN "clamp" ELSE y.big.order,
                               !.over = big.over - delta,
                               !.blocks = big.blocks + 1,
                               !.delta = delta,
                               !.dropped = overflow /\ pending.match_len # 0,
                               !.pre = [idx |-> idx, literal_idx |-> literal_idx,
                                        pending |-> pending, over |-> big.over,
                                        queue |-> y.queue]]]))))))

\* FrontendBytes::finalize after the last block: flush_pending and
\* flush_literals.
BigFinalize ==
    /\ pc = "end"
    /\ big.short
    /\ Bind(IF pending.match_len # 0
              THEN pending.idx + pending.match_len ELSE literal_idx, LAMBDA lit :
        BigStepped(asserted(
            /\ pending.match_len # 0 =>
                  literal_idx <= pending.idx /\ pending.idx <= big.block
            /\ lit <= big.block,
            "flush",
            [Bytes EXCEPT !.pending.match_len = 0, !.literal_idx = big.block,
                          !.pc = "done"])))

InitBlocks ==
    /\ variant = "bytes"
    /\ src = <<>>
    /\ Constructed

NextBlocks ==
    \/ BigInit
    \/ MatchAnyEnter
    \/ AnySkip
    \/ AnyFind
    \/ Reposition
    \/ BigFinalize

SpecBlocks == InitBlocks /\ [][NextBlocks]_vars


SpecBlocksLive == InitBlocks /\ [][NextBlocks]_vars /\ WF_vars(NextBlocks)

\* C26: the items are pushed to the history table in sequential order,
\* each idx one above the idx of the push before (less delta across a
\* reposition), none skipped and none pushed twice.
PushesSequential == big.order = "ok"

\* C21: at every find_match of the bytes frontend the distance
\* (item.idx - entry.idx) as u32 of an entry looked at is at most Q2.
DistanceWithinQ2 == ~big.beyond

\* The entry e of the history is within Q1 of the index i.
within_q1(e, i) ==
    Bind(wrapping_sub(i, e.idx), LAMBDA d : 0 <= d /\ d <= Q1)

\* The index reposition slid from: self.index once the history is synced.
Synced == IF big.pre.idx < big.pre.literal_idx THEN big.pre.literal_idx ELSE big.pre.idx

\* What reposition does to the indices of the frontend.
Slid ==
    /\ big.delta = Synced - MAX_MATCH_DISTANCE(big.ty)
    /\ idx = MAX_MATCH_DISTANCE(big.ty)
    /\ literal_idx <= idx
    /\ big.over = big.pre.over - big.delta
    /\ big.over >= idx + 4 - BLOCK_GUIDE
    /\ IF big.pre.literal_idx < big.delta
         THEN literal_idx = 0 /\ pending.match_len = 0
         ELSE /\ literal_idx = big.pre.literal_idx - big.delta
              /\ pending.match_len = big.pre.pending.match_len
              /\ pending.idx = wrapping_sub(big.pre.pending.idx, big.delta)
              /\ pending.match_idx = wrapping_sub(big.pre.pending.match_idx, big.delta)

\* C23 as stated: after reposition index is MAX_MATCH_DISTANCE, literal_index
\* is at most index, and delta is subtracted from every index, the entries
\* of the history included, so that each addresses the byte it did.
RepositionSlidesAll ==
    pc = "any" /\ big.blocks > 0 =>
        /\ Slid
        /\ \A k \in 1..HASH_WIDTH :
              TableGet(table, 1)[k].idx
                  = wrapping_sub(big.pre.queue[k].idx, big.delta)

\* C23: after reposition index is MAX_MATCH_DISTANCE, literal_index is at
\* most index, and delta is subtracted from every index and from every entry
\* of the history within Q1 of index, so that each addresses the byte it
\* did; an entry further back is set Q1 behind the new index.
RepositionSlides ==
    pc = "any" /\ big.blocks > 0 =>
        /\ Slid
        /\ \A k \in 1..HASH_WIDTH :
              IF within_q1(big.pre.queue[k], Synced)
                THEN TableGet(table, 1)[k].idx
                         = wrapping_sub(big.pre.queue[k].idx, big.delta)
                ELSE TableGet(table, 1)[k].idx = idx - Q1

\* A reposition that dropped a pending match, slid an entry of the history
\* and set another Q1 behind.
RepositionSlidesWitness ==
    /\ pc = "any"
    /\ big.blocks > 0
    /\ big.dropped
    /\ \E k \in 1..HASH_WIDTH :
          /\ within_q1(big.pre.queue[k], Synced)
          /\ big.pre.queue[k].idx >= 0
    /\ \E k \in 1..HASH_WIDTH :
          /\ ~within_q1(big.pre.queue[k], Synced)
          /\ big.pre.queue[k].idx >= 0

\* The loop of match_any is below its target, and reposition took off at
\* least one byte.
Advancing ==
    /\ big.panic = "none"
    /\ pc # "panic"
    /\ pc = "loop" => cur < idx
    /\ pc = "any" /\ big.blocks > 0 => big.delta >= 1

\* C30: for an input longer than RAW_CUTOFF match_blocks comes to its end:
\* each match_any starts below its target and moves the index up, each
\* reposition takes at least one byte off src, and no assert! of match_any,
\* reposition, flush_pending or flush_literals fails.
BytesTerminates ==
    /\ []Advancing
    /\ [][/\ pc = "loop" /\ pc' = "loop" => cur' > cur
          /\ pc = "end" /\ pc' = "any" => big'.over < big.over]_vars
    /\ <>(pc = "done")

\* An input of three blocks matched to its end.
BytesTerminatesWitness ==
    /\ pc = "done"
    /\ big.blocks >= 2
    /\ big.panic = "none"
    /\ literal_idx = big.block

\* C22: whenever match_long or match_short reads the ring, the head shadow
\* holds the first RING_LIMIT bytes of the ring and the tail shadow the last:
\* manage_ring_zones at the start of match_block and of flush has copied
\* them out after the last write that reached them.
ShadowCoherent == pc = "loop" => ~feed.head_stale /\ ~feed.tail_stale

\* match_short at work after a flush that found the first bytes of the ring
\* written again, in the second round of the ring.
ShadowCoherentWitness ==
    /\ pc = "loop"
    /\ feed.loop = "short"
    /\ tail > RING_SIZE
    /\ tail % RING_SIZE > 0
    /\ tail % RING_SIZE < RING_LIMIT
    /\ ~feed.head_stale
    /\ ~feed.tail_stale
====
